---- MODULE Spec2Model ----
(***************************************************************************)
(* POS integration layer of b28-web/consult.                               *)
(*                                                                         *)
(* The subsystems modelled, each with its own specification:              *)
(*   - the order submission orchestrator (apps/web/pos/services/           *)
(*     order_submission.py and apps/web/pos/tasks.py), specification Spec: *)
(*     every action is one whole call of a public entry point on the one   *)
(*     stored order; ConcurrentSubmitSpec interleaves several callers of   *)
(*     submit_order_to_pos;                                                *)
(*   - the webhook processor (apps/web/pos/services/webhook_processor.py), *)
(*     specification WebhookSpec: concurrent callers of process_webhook    *)
(*     and process_pending_webhooks, interleaved at the row lock;          *)
(*   - the HTTP retry wrapper of the Toast, Clover and Square adapters     *)
(*     (apps/web/pos/adapters), specification RequestSpec: one attempt of  *)
(*     the loop per action;                                                *)
(*   - the adapters' rate limiter, specification LimiterSpec: tasks        *)
(*     calling acquire, interleaved at the lock and the sleep;             *)
(*   - MockPOSAdapter (apps/web/pos/adapters/mock.py), specification       *)
(*     MockSpec: every action is one call on the one instance;             *)
(*   - verify_webhook_signature of the four adapters, specification        *)
(*     SignatureSpec: the arguments are drawn in the initial state and     *)
(*     the one action applies the function;                                *)
(*   - overlapping compensations (compensate_failed_order and              *)
(*     handle_pos_submission_failure), specification CompensationSpec:     *)
(*     callers interleaved at every read and write of the order;           *)
(*   - the two confirmation paths of an order (restaurant/views.py         *)
(*     confirm_order and payments/webhooks.py), specification ConfirmSpec, *)
(*     with weak fairness of every handler step.                           *)
(***************************************************************************)
EXTENDS Integers, Sequences, FiniteSets, TLC

VARIABLES
    \* ---- order submission ----
    order,        \* the stored Order row
    profile,      \* the tenant's RestaurantProfile (or none)
    hasCreds,     \* POS_<PROVIDER>_<SLUG>_CLIENT_ID / _SECRET are configured
    now,          \* timezone.now(), advanced when a call has read it
    posOrders,    \* number of orders the POS has created for this order
    refunds,      \* sequence of payment-intent ids create_refund was called with
    last,         \* the last call: its arguments, the order before it, its outcome
    attempts,     \* task invocations of the current in-turn retry chain
    nextRc,       \* retry_count the in-turn caller uses next, -1: no retry pending
    \* ---- webhook processing ----
    webhooks,     \* POSWebhookEvent rows, by id
    secrets,      \* providers with a non-empty POS_<PROVIDER>_WEBHOOK_SECRET
    menuItems,    \* MenuItem rows, by external_id
    modifiers,    \* Modifier rows, by external_id
    posOrderRow,  \* Order rows a status webhook can refer to, by external_id
    wnow,         \* timezone.now() of the webhook workers
    pc,           \* position of every worker
    cur,          \* webhook id of the worker's process_webhook call (0: none)
    row,          \* the row the worker read under select_for_update
    started,      \* start_time of the worker's call
    inBatch,      \* the worker is inside process_pending_webhooks
    queue,        \* ids the batch still has to process
    count,        \* processed_count of the batch
    skips,        \* calls that found the webhook already processed and returned
    applied,      \* times _handle_pos_event ran for a webhook
    saves,        \* times a status was saved for a webhook
    overlapped,   \* two calls for the webhook were in flight at once
    raising,      \* class of the exception the worker's call is about to raise
    parses,       \* times parse_webhook ran for a webhook
    batch,        \* the worker's batch: its selection and the calls it made so far
    \* ---- concurrent submission ----
    spc,          \* position of every caller of submit_order_to_pos
    held,         \* the Order instance the caller loaded
    resp,         \* the POSOrderResult the caller got from create_order
    nCalls,       \* submit_order_to_pos calls started
    writes,       \* external ids saved to the order, in the order of the saves
    \* ---- adapter HTTP requests ----
    httpAdapter,  \* provider of the adapter whose _request_with_retry is called
    rpc,          \* position of the call
    attempt,      \* loop variable of the call
    last_error,   \* class of the last caught exception ("": None)
    sent,         \* answers to the requests of the call, in order
    slept,        \* backoff sleeps of the call, in order
    steps,        \* what the call has awaited so far, in order
    outcome,      \* what the call returned or raised
    \* ---- rate limiters ----
    rate_limiters, \* ToastAdapter._rate_limiters of every adapter: location -> limiter
    limiters,     \* the RateLimiter objects, in the order of their creation
    lpc,          \* position of every task that sends requests
    using,        \* the limiter whose acquire the task is in (0: none)
    wake,         \* the time the task's asyncio.sleep ends at the earliest
    clock,        \* datetime.now(UTC)
    \* ---- mock adapter ----
    fail_orders,  \* MockPOSAdapter._fail_orders
    unavailable_items, \* MockPOSAdapter._unavailable_items
    mock_orders,  \* MockPOSAdapter._orders: the status of every tracked order
    issued,       \* ids successful create_order calls returned
    touched,      \* tracked ids set_order_status was called for since their creation
    mlast,        \* the last call to the adapter and its outcome
    \* ---- webhook signatures ----
    sigAdapter,   \* the adapter whose verify_webhook_signature is called
    sigPayload,   \* payload: the bytes of the request body
    sigSecret,    \* secret.encode(): the bytes of the configured secret
    sigUrl,       \* notification_url.encode() (Square only; empty: none given)
    signedBy,     \* what the sender signed, under which key, rendered how
    sigSignature, \* signature: the text of the signature header
    verified,     \* the value the call returned ("not called" before it)
    \* ---- overlapping compensations ----
    cpc,          \* position of every caller of a compensation
    cop,          \* the function the caller is in
    loaded,       \* the Order object the caller works on
    rowLock,      \* the caller whose transaction holds the order's row lock
    ncomp,        \* calls begun
    nRefunded,    \* create_refund calls that returned a refund
    \* ---- confirmation paths ----
    epc,          \* position of the confirm_order request
    epIntent,     \* payment_intent_id of the request
    epStatus,     \* HTTP status of the response (0: none yet)
    nConfirm,     \* confirm requests made (counted up to MaxConfirmRequests)
    hpc,          \* position of the payment_intent.succeeded handler
    nEvents,      \* events delivered (counted up to MaxStripeEvents)
    invoked       \* submit_order_to_pos_task calls made by the endpoint

orderVars == <<order, profile, hasCreds, now, posOrders, refunds, last, attempts, nextRc>>
webhookVars == <<webhooks, secrets, menuItems, modifiers, posOrderRow, wnow, pc, cur,
                 row, started, inBatch, queue, count, skips, applied, saves, overlapped,
                 raising, parses, batch>>
submitVars == <<spc, held, resp, nCalls, writes>>
compensationVars == <<cpc, cop, loaded, rowLock, ncomp, nRefunded>>
confirmVars == <<epc, epIntent, epStatus, nConfirm, hpc, nEvents, invoked>>
requestVars == <<httpAdapter, rpc, attempt, last_error, sent, slept, steps, outcome>>
limiterVars == <<rate_limiters, limiters, lpc, using, wake, clock>>
mockVars == <<fail_orders, unavailable_items, mock_orders, issued, touched, mlast>>
signatureVars == <<sigAdapter, sigPayload, sigSecret, sigUrl, signedBy, sigSignature, verified>>
adapterVars == <<requestVars, limiterVars, mockVars, signatureVars>>
vars == <<orderVars, webhookVars, submitVars, compensationVars, confirmVars, adapterVars>>

\* ---------------------------------------------------------------------------
\* Bounds of the model
\* ---------------------------------------------------------------------------
MaxRefundCalls == 2  \* create_refund calls per behaviour of Spec
MaxRetryCount == 3   \* largest retry_count argument tried
MaxWClock == 3       \* the webhook workers' clock stops there: it ticks per call
MaxLimit == 2        \* largest limit argument of process_pending_webhooks
MaxSubmitCalls == 3  \* submit_order_to_pos calls per behaviour of ConcurrentSubmitSpec

\* ---------------------------------------------------------------------------
\* Program constants
\* ---------------------------------------------------------------------------
MAX_RETRIES == 3
RETRY_DELAYS == <<60, 120, 300>>

Min(a, b) == IF a < b THEN a ELSE b

\* Order ids: the stored order and an id no row has.
ExistingOrder == 1
MissingOrder == 99999
OrderIds == {ExistingOrder, MissingOrder}

\* external_id "" is NoId; the n-th order the POS creates gets id n.
NoId == 0
\* A DateTimeField that is NULL.
Null == 0

OrderStatuses ==
    {"pending", "confirmed", "preparing", "ready", "completed", "cancelled", "pos_failed"}
PaymentStatuses ==
    {"pending", "authorized", "captured", "failed", "refunded", "succeeded"}

\* RestaurantProfile.has_pos
has_pos(p) == p.pos_provider # "" /\ p.pos_location_id # ""

\* The tenant's profile: none, one without a POS (nothing set, or a provider
\* without a location), or one connected to a provider.
NoProfile == [exists |-> FALSE, pos_provider |-> "", pos_location_id |-> ""]
Profiles ==
    {NoProfile} \cup
    { p \in [exists : {TRUE}, pos_provider : {"", "toast", "clover", "square"},
             pos_location_id : {"", "loc-1"}] :
        ~has_pos(p) => (p.pos_location_id = "" /\ p.pos_provider \in {"", "toast"}) }


\* ---------------------------------------------------------------------------
\* Order submission: adapters
\* ---------------------------------------------------------------------------

\* get_pos_credentials: credentials exist only for a connected POS of a known
\* provider whose client id and secret are configured.
get_pos_credentials(p) ==
    has_pos(p) /\ p.pos_provider \in {"toast", "clover", "square"} /\ hasCreds

\* The adapter _submit_order_async selects: provider_map.get(pos_provider, MOCK).
AdapterOf(p) ==
    IF p.pos_provider \in {"toast", "clover", "square"} THEN p.pos_provider ELSE "mock"

\* A slip: Clover and Square accept orders like the Toast placeholder does.
create_order_accepted(adapter, n, t) ==
    [ok |-> TRUE, external_id |-> n + 1, confirmation_code |-> "POS",
     estimated_ready_time |-> t + 20, error |-> ""]

\* adapter.create_order(session, location, pos_order) of each provider. Toast runs
\* in placeholder mode and always succeeds; Clover and Square always raise
\* POSAPIError; a fresh MockPOSAdapter has no failure injected. n is the number of
\* orders the POS created before, t the time of the call.
create_order(adapter, n, t) ==
    CASE adapter = "toast" ->
           [ok |-> TRUE, external_id |-> n + 1, confirmation_code |-> "POS",
            estimated_ready_time |-> t + 25, error |-> ""]
      [] adapter = "mock" ->
           [ok |-> TRUE, external_id |-> n + 1, confirmation_code |-> "POS",
            estimated_ready_time |-> t + 20, error |-> ""]
      [] OTHER ->
           [ok |-> FALSE, external_id |-> NoId, confirmation_code |-> "",
            estimated_ready_time |-> Null, error |-> "POSAPIError"]

\* adapter.authenticate(credentials): TRUE for a session, FALSE for POSAuthError.
\* Toast asks its auth endpoint (authOk is the answer); Clover and Square need
\* credentials.extra["auth_code"], which get_pos_credentials never sets.
authenticate(adapter, authOk) ==
    CASE adapter = "toast" -> authOk
      [] adapter = "mock" -> TRUE
      [] OTHER -> FALSE

\* A slip: the except clause names POSOrderError alone.
CaughtOrderErrorOnly == {"POSOrderError"}

\* The adapter errors `except (POSAPIError, POSOrderError)` catches:
\* POSRateLimitError is a POSAPIError; POSAuthError, POSWebhookError and a bare
\* POSError are not caught.
Caught == {"POSAPIError", "POSRateLimitError", "POSOrderError"}

\* ---------------------------------------------------------------------------
\* Order submission: submit_order_to_pos
\* ---------------------------------------------------------------------------

\* The outcome of one submit_order_to_pos call: whether it raised
\* OrderSubmissionError (and with which is_retryable), the order row afterwards,
\* the returned dict, and the adapter calls it made. exc is the class of the
\* exception that leaves the call ("" for none), auth_error whether
\* authenticate raised POSAuthError.
SubmitOut(rsd, retr, o, ext, conf, nAuth, nCreate, created) ==
    [raised |-> rsd, is_retryable |-> retr, order |-> o, external_id |-> ext,
     confirmation_code |-> conf, nAuth |-> nAuth, nCreate |-> nCreate,
     created |-> created, auth_error |-> FALSE,
     exc |-> IF rsd THEN "OrderSubmissionError" ELSE ""]

\* A slip: submitted_at is left out of the update.
UpdateWithoutSubmittedAt(o, res, t) ==
    [o EXCEPT !.external_id = res.external_id,
              !.status = "confirmed",
              !.confirmation_code =
                  IF res.confirmation_code # "" /\ o.confirmation_code = ""
                  THEN res.confirmation_code ELSE @,
              !.estimated_ready_time =
                  IF res.estimated_ready_time # Null
                  THEN res.estimated_ready_time ELSE @]

\* The update of the order with the POS response (inside transaction.atomic).
UpdateWithPosResponse(o, res, t) ==
    [o EXCEPT !.external_id = res.external_id,
              !.status = "confirmed",
              !.submitted_at = t,
              !.confirmation_code =
                  IF res.confirmation_code # "" /\ o.confirmation_code = ""
                  THEN res.confirmation_code ELSE @,
              !.estimated_ready_time =
                  IF res.estimated_ready_time # Null
                  THEN res.estimated_ready_time ELSE @]

\* A slip: the early return is taken only for an order still "confirmed".
AlreadySubmittedIfConfirmed(o) == o.external_id # NoId /\ o.status = "confirmed"

\* The early return of submit_order_to_pos: the order carries an external id.
AlreadySubmitted(o) == o.external_id # NoId

\* A slip: an order that failed at the POS may be submitted again.
ReadyOrPosFailed(o) == o.status \in {"confirmed", "pending", "pos_failed"}

\* The status test of submit_order_to_pos.
ReadyForSubmission(o) == o.status \in {"confirmed", "pending"}

\* A slip: a provider alone counts as a configured POS.
ProviderConfigured(p) == p.exists /\ p.pos_provider # ""

\* The tenant has a profile and the profile has a POS.
PosConfigured(p) == p.exists /\ has_pos(p)

\* A slip: the order is marked pos_failed where the POS error is caught.
OnCreateFailureMarked(o, nAuth) ==
    SubmitOut(TRUE, TRUE, [o EXCEPT !.status = "pos_failed"], NoId, "", nAuth, 1, FALSE)

\* except (POSAPIError, POSOrderError): OrderSubmissionError, retryable; the
\* order was not written.
OnCreateFailure(o, nAuth) == SubmitOut(TRUE, TRUE, o, NoId, "", nAuth, 1, FALSE)

\* submit_order_to_pos(order_id) on the order row o, for profile p, with n orders
\* at the POS, at time t; authOk is the answer of the provider's auth endpoint.
submit_order_to_pos(oid, o, p, n, t, authOk) ==
    IF oid # ExistingOrder
    THEN SubmitOut(TRUE, FALSE, o, NoId, "", 0, 0, FALSE)
    ELSE IF AlreadySubmitted(o)
    THEN SubmitOut(FALSE, FALSE, o, o.external_id, o.confirmation_code, 0, 0, FALSE)
    ELSE IF ~ReadyForSubmission(o)
    THEN SubmitOut(TRUE, FALSE, o, NoId, "", 0, 0, FALSE)
    ELSE IF ~PosConfigured(p)
    THEN SubmitOut(FALSE, FALSE, [o EXCEPT !.status = "confirmed"], NoId,
                   o.confirmation_code, 0, 0, FALSE)
    ELSE LET creds == get_pos_credentials(p)
             nAuth == IF creds THEN 1 ELSE 0
             authErr == creds /\ ~authenticate(AdapterOf(p), authOk)
             res == create_order(AdapterOf(p), n, t)
             o2 == UpdateWithPosResponse(o, res, t)
             out == IF res.ok
                    THEN SubmitOut(FALSE, FALSE, o2, res.external_id,
                                   o2.confirmation_code, nAuth, 1, TRUE)
                    ELSE IF res.error \in Caught
                    THEN OnCreateFailure(o, nAuth)
                    ELSE [SubmitOut(FALSE, FALSE, o, NoId, "", nAuth, 1, FALSE)
                            EXCEPT !.exc = res.error]
         IN  [out EXCEPT !.auth_error = authErr]

\* ---------------------------------------------------------------------------
\* Order submission: saga compensation and permanent failure
\* ---------------------------------------------------------------------------

\* compensate_failed_order(order); refundOk is whether create_refund returns
\* (TRUE) or raises PaymentError (FALSE). calls: the intent ids create_refund was
\* called with.
\* A slip: an authorized (not yet captured) payment is refunded too.
RefundableOrAuthorized == {"captured", "succeeded", "authorized"}

\* The payment statuses compensate_failed_order refunds.
Refundable == {"captured", "succeeded"}

\* A slip: the order is cancelled whether or not the refund went through.
compensate_cancels_first(o, refundOk) ==
    IF o.payment_status \notin Refundable
    THEN [order |-> o, returned |-> FALSE, calls |-> <<>>]
    ELSE IF o.stripe_payment_intent_id = ""
    THEN [order |-> o, returned |-> FALSE, calls |-> <<>>]
    ELSE IF refundOk
    THEN [order |-> [o EXCEPT !.payment_status = "refunded", !.status = "cancelled"],
          returned |-> TRUE, calls |-> <<o.stripe_payment_intent_id>>]
    ELSE [order |-> [o EXCEPT !.status = "cancelled"], returned |-> FALSE,
          calls |-> <<o.stripe_payment_intent_id>>]

\* A slip: the refund is recorded but the order is not cancelled.
compensate_keeps_status(o, refundOk) ==
    IF o.payment_status \notin Refundable
    THEN [order |-> o, returned |-> FALSE, calls |-> <<>>]
    ELSE IF o.stripe_payment_intent_id = ""
    THEN [order |-> o, returned |-> FALSE, calls |-> <<>>]
    ELSE IF refundOk
    THEN [order |-> [o EXCEPT !.payment_status = "refunded"],
          returned |-> TRUE, calls |-> <<o.stripe_payment_intent_id>>]
    ELSE [order |-> o, returned |-> FALSE, calls |-> <<o.stripe_payment_intent_id>>]

compensate_failed_order(o, refundOk) ==
    IF o.payment_status \notin Refundable
    THEN [order |-> o, returned |-> FALSE, calls |-> <<>>]
    ELSE IF o.stripe_payment_intent_id = ""
    THEN [order |-> o, returned |-> FALSE, calls |-> <<>>]
    ELSE IF refundOk
    THEN [order |-> [o EXCEPT !.payment_status = "refunded", !.status = "cancelled"],
          returned |-> TRUE, calls |-> <<o.stripe_payment_intent_id>>]
    ELSE [order |-> o, returned |-> FALSE, calls |-> <<o.stripe_payment_intent_id>>]

handle_pos_submission_failure(oid, o, auto_refund, refundOk) ==
    IF oid # ExistingOrder
    THEN [order |-> o, returned |-> FALSE, calls |-> <<>>]
    ELSE LET o1 == [o EXCEPT !.status = "pos_failed"]
         IN  IF auto_refund /\ o1.stripe_payment_intent_id # ""
             THEN compensate_failed_order(o1, refundOk)
             ELSE [order |-> o1, returned |-> FALSE, calls |-> <<>>]

\* ---------------------------------------------------------------------------
\* Order submission: the retry-policy wrapper
\* ---------------------------------------------------------------------------

\* A slip: the first delay whatever the attempt.
RetryDelayFirst(rc) == RETRY_DELAYS[1]

\* RETRY_DELAYS[min(retry_count, len(RETRY_DELAYS) - 1)], 0-indexed in the code.
RetryDelay(rc) == RETRY_DELAYS[Min(rc, Len(RETRY_DELAYS) - 1) + 1]

\* A slip: a retryable error is retried whatever the retry_count.
WillRetryAlways(is_retryable, rc) == is_retryable

\* A slip: MAX_RETRIES counts the attempts, not the retries.
WillRetryCountingAttempts(is_retryable, rc) == is_retryable /\ rc + 1 < MAX_RETRIES

\* The task's decision on an OrderSubmissionError: schedule a retry, or fail.
WillRetry(is_retryable, rc) == is_retryable /\ rc < MAX_RETRIES

\* The auto_refund argument the task passes to handle_pos_submission_failure.
TaskAutoRefund == FALSE

\* submit_order_to_pos_task(order_id, retry_count): the order afterwards and the
\* returned dict. Absent keys: retry_count -1, next_retry_delay 0, status "".
submit_order_to_pos_task(oid, rc, o, p, n, t, refundOk, authOk) ==
    LET s == submit_order_to_pos(oid, o, p, n, t, authOk)
        base == [order |-> s.order, raised |-> s.raised,
                 err_retryable |-> s.is_retryable,
                 auth_error |-> s.auth_error, exc |-> s.exc, submits |-> 1,
                 success |-> FALSE, is_retryable |-> FALSE, retry_count |-> -1,
                 next_retry_delay |-> 0, status |-> "",
                 external_id |-> NoId, confirmation_code |-> "",
                 nAuth |-> s.nAuth, nCreate |-> s.nCreate, created |-> s.created,
                 calls |-> <<>>]
    IN  IF s.exc = ""
        THEN [base EXCEPT !.success = TRUE, !.external_id = s.external_id,
                          !.confirmation_code = s.confirmation_code]
        ELSE IF ~s.raised
        THEN base
        ELSE IF WillRetry(s.is_retryable, rc)
        THEN [base EXCEPT !.is_retryable = TRUE, !.retry_count = rc,
                          !.next_retry_delay = RetryDelay(rc)]
        ELSE LET h == handle_pos_submission_failure(oid, s.order, TaskAutoRefund,
                                                    refundOk)
             IN  [base EXCEPT !.order = h.order, !.status = "pos_failed",
                              !.calls = h.calls]

\* retry_failed_order(order_id).
\* A slip: a cancelled order may be retried too.
CanRetryCancelled(o) == o.status \in {"pos_failed", "cancelled"}

\* The status test of retry_failed_order.
CanRetry(o) == o.status = "pos_failed"

retry_failed_order(oid, o, p, n, t, refundOk, authOk) ==
    LET none == [order |-> o, raised |-> FALSE, err_retryable |-> FALSE,
                 auth_error |-> FALSE, exc |-> "", submits |-> 0,
                 success |-> FALSE, is_retryable |-> FALSE, retry_count |-> -1,
                 next_retry_delay |-> 0, status |-> "",
                 external_id |-> NoId, confirmation_code |-> "",
                 nAuth |-> 0, nCreate |-> 0, created |-> FALSE, calls |-> <<>>]
    IN  IF oid # ExistingOrder THEN none
        ELSE IF ~CanRetry(o) THEN none
        ELSE submit_order_to_pos_task(oid, 0, [o EXCEPT !.status = "confirmed"],
                                      p, n, t, refundOk, authOk)


\* ---------------------------------------------------------------------------
\* Specification Spec: calls on the stored order, one whole call per step
\* ---------------------------------------------------------------------------

\* An order row as the storefront and the POS flow leave it: an order that has
\* an external id was submitted (at time 1, as the POS's first order); an order
\* past "pending" was confirmed with a default estimate.
InitOrders ==
    { [status |-> s, payment_status |-> ps, external_id |-> e,
       stripe_payment_intent_id |-> i, confirmation_code |-> c,
       submitted_at |-> IF e # NoId THEN 1 ELSE Null,
       estimated_ready_time |-> IF s = "pending" THEN Null ELSE 30] :
      s \in OrderStatuses, ps \in PaymentStatuses, e \in {NoId, 1},
      i \in {"", "pi_1"}, c \in {"", "OURS"} }

NoCall ==
    [op |-> "none", oid |-> 0, rc |-> -1, auto_refund |-> FALSE,
     raised |-> FALSE, err_retryable |-> FALSE,
     success |-> FALSE, is_retryable |-> FALSE, retry_count |-> -1,
     next_retry_delay |-> 0, status |-> "", external_id |-> NoId,
     confirmation_code |-> "", returned |-> FALSE,
     nAuth |-> 0, nCreate |-> 0, created |-> FALSE, calls |-> <<>>,
     refund_ok |-> FALSE, auth_error |-> FALSE, exc |-> "", submits |-> 0]

\* The record of a call: its arguments, the order before it, and its outcome
\* (the keys the outcome lacks are NoCall's).
Call(op, oid, rc, auto_refund, pre, out) ==
    [op |-> op, oid |-> oid, rc |-> rc, auto_refund |-> auto_refund, pre |-> pre]
    @@ out @@ NoCall

OrderInit ==
    /\ order \in InitOrders
    /\ profile \in Profiles
    /\ hasCreds \in BOOLEAN
    /\ (hasCreds => has_pos(profile))
    /\ now = 1
    /\ posOrders = (IF order.external_id # NoId THEN 1 ELSE 0)
    /\ refunds = <<>>
    /\ last = Call("none", 0, -1, FALSE, order, NoCall)
    /\ attempts = 0
    /\ nextRc = -1

\* What every call does to the bookkeeping: the clock, the POS's orders, the
\* refund calls and the record of the call. out is the call's outcome, its
\* order field the row afterwards.
Record(op, oid, rc, auto_refund, out) ==
    /\ Len(refunds \o out.calls) <= MaxRefundCalls
    /\ now' = now + (IF "created" \in DOMAIN out /\ out.created THEN 1 ELSE 0)
    /\ order' = out.order
    /\ posOrders' = posOrders + (IF "created" \in DOMAIN out /\ out.created THEN 1 ELSE 0)
    /\ refunds' = refunds \o out.calls
    /\ last' = Call(op, oid, rc, auto_refund, order,
                    [f \in DOMAIN out \ {"order"} |-> out[f]])
    /\ UNCHANGED <<profile, hasCreds>>

\* create_refund returns (TRUE) or raises PaymentError (FALSE); a call that
\* cannot reach create_refund draws nothing.
RefundOutcomes(auto_refund) == IF auto_refund THEN BOOLEAN ELSE {FALSE}

\* The answers the auth endpoint can give: it is asked only by the Toast
\* adapter, and only when credentials are configured.
AuthOutcomes ==
    IF get_pos_credentials(profile) /\ AdapterOf(profile) = "toast"
    THEN BOOLEAN ELSE {TRUE}

SubmitOrderToPos(oid) ==
    \E authOk \in AuthOutcomes :
      LET s == submit_order_to_pos(oid, order, profile, posOrders, now, authOk)
      IN  /\ Record("submit_order_to_pos", oid, -1, FALSE,
                    [order |-> s.order, raised |-> s.raised,
                     err_retryable |-> s.is_retryable, external_id |-> s.external_id,
                     confirmation_code |-> s.confirmation_code, nAuth |-> s.nAuth,
                     nCreate |-> s.nCreate, created |-> s.created, calls |-> <<>>,
                     auth_error |-> s.auth_error, exc |-> s.exc, submits |-> 1])
          /\ attempts' = 0
          /\ nextRc' = -1

SubmitOrderToPosTask(oid, rc) ==
    \E refundOk \in RefundOutcomes(TaskAutoRefund), authOk \in AuthOutcomes :
      LET out == submit_order_to_pos_task(oid, rc, order, profile, posOrders, now,
                                          refundOk, authOk)
          n == IF rc = 0 THEN 1
               ELSE IF rc = nextRc /\ oid = last.oid THEN attempts + 1
               ELSE 0
      IN  /\ Record("submit_order_to_pos_task", oid, rc, FALSE, out)
          /\ attempts' = n
          /\ nextRc' = IF n > 0 /\ out.is_retryable THEN rc + 1 ELSE -1

RetryFailedOrder(oid) ==
    \E refundOk \in RefundOutcomes(TaskAutoRefund), authOk \in AuthOutcomes :
      /\ Record("retry_failed_order", oid, -1, FALSE,
                retry_failed_order(oid, order, profile, posOrders, now, refundOk,
                                   authOk))
      /\ attempts' = 0
      /\ nextRc' = -1

HandlePosSubmissionFailure(oid, auto_refund) ==
    \E refundOk \in RefundOutcomes(auto_refund) :
      /\ Record("handle_pos_submission_failure", oid, -1, auto_refund,
                handle_pos_submission_failure(oid, order, auto_refund, refundOk)
                @@ [refund_ok |-> refundOk])
      /\ attempts' = 0
      /\ nextRc' = -1

CompensateFailedOrder ==
    \E refundOk \in BOOLEAN :
      /\ Record("compensate_failed_order", ExistingOrder, -1, FALSE,
                compensate_failed_order(order, refundOk) @@ [refund_ok |-> refundOk])
      /\ attempts' = 0
      /\ nextRc' = -1

OrderNext ==
    \/ \E oid \in OrderIds : SubmitOrderToPos(oid)
    \/ \E oid \in OrderIds, rc \in 0..MaxRetryCount : SubmitOrderToPosTask(oid, rc)
    \/ \E oid \in OrderIds : RetryFailedOrder(oid)
    \/ \E oid \in OrderIds, auto_refund \in BOOLEAN :
          HandlePosSubmissionFailure(oid, auto_refund)
    \/ CompensateFailedOrder


\* ---------------------------------------------------------------------------
\* Webhook processing: records, adapter and handlers
\* ---------------------------------------------------------------------------

WebhookStatus == {"pending", "processed", "failed", "skipped"}
AfterProcessing == [ok |-> "processed", error |-> "failed"]

\* The two records of the table, in received_at order.
WebhookIds == {1, 2}
Workers == {"w1", "w2"}
Providers == {"toast", "clover", "square"}

\* Payloads as the intake stores them. event_type "bogus" is one parse_webhook
\* does not know.
Payloads ==
    { [event_type |-> "item_availability_changed", id |-> "item-1", value |-> "false"],
      [event_type |-> "item_availability_changed", id |-> "item-1", value |-> "true"],
      [event_type |-> "item_availability_changed", id |-> "mod-1", value |-> "false"],
      [event_type |-> "menu_updated", id |-> "menu-1", value |-> ""],
      [event_type |-> "order_status_changed", id |-> "ext-1", value |-> "ready"],
      [event_type |-> "bogus", id |-> "", value |-> ""] }

\* The signature header of a delivery: none, the hex HMAC-SHA256 of the stored
\* payload under the provider's secret, or anything else.
Signatures == {"", "hmac", "forged"}

\* The deliveries the model draws its records from: every payload unsigned,
\* and one signed and one forged delivery.
Deliveries ==
    { d \in [provider : Providers, signature : Signatures, payload : Payloads] :
        \/ d.provider = "toast" /\ d.signature = ""
        \/ d.provider = "clover" /\ d.signature = "hmac" /\ d.payload.id = "ext-1"
        \/ d.provider = "square" /\ d.signature = "forged" /\ d.payload.id = "mod-1" }

\* get_adapter_for_provider: every provider gets the mock adapter.
get_adapter_for_provider(provider) == "mock"

\* get_webhook_secret: "" when none is configured.
get_webhook_secret(provider) == IF provider \in secrets THEN "secret" ELSE ""

\* MockPOSAdapter.verify_webhook_signature on json.dumps(payload): the
\* signature must be the hex HMAC-SHA256 of the payload under the secret.
\* A slip: every signature is accepted.
AcceptAnySignature(adapter, signature, secret) == TRUE

verify_webhook_signature(adapter, signature, secret) == signature = "hmac"

\* MockPOSAdapter.parse_webhook: the typed event, or an error.
parse_webhook(adapter, payload) ==
    IF payload.event_type \in
         {"menu_updated", "item_availability_changed", "order_status_changed"}
    THEN [ok |-> TRUE, event |-> payload, error |-> "", exc |-> ""]
    ELSE [ok |-> FALSE, event |-> payload, error |-> "Unknown event type",
          exc |-> "POSWebhookError"]

\* The rows after _handle_pos_event(client, event) at time t.
HandleEvent(db, event, t) ==
    CASE event.event_type = "item_availability_changed" ->
           IF event.id \in DOMAIN db.menuItems
           THEN [db EXCEPT !.menuItems[event.id] =
                    [is_available |-> event.value = "true",
                     availability_updated_at |-> t]]
           ELSE IF event.id \in DOMAIN db.modifiers
           THEN [db EXCEPT !.modifiers[event.id] =
                    [is_available |-> event.value = "true"]]
           ELSE db
      [] event.event_type = "order_status_changed" ->
           IF event.id \in DOMAIN db.orders
           THEN [db EXCEPT !.orders[event.id] = [status |-> event.value]]
           ELSE db
      [] OTHER -> db

\* A slip: no skip at all.
NeverSkipped(r) == FALSE

\* A slip: only a processed record is skipped.
SkipProcessedOnly(r) == r.status = "processed"

\* The skip test of process_webhook on the row read under the lock.
AlreadyProcessed(r) == r.status # "pending"

\* A slip: a plain get(), no select_for_update.
NoRowLock(p, w) == TRUE

\* select_for_update: the row lock of webhook w is free for worker p.
LockFree(p, w) == \A q \in Workers \ {p} : ~(pc[q] = "locked" /\ cur[q] = w)

\* A slip: a record without a signature fails the verification when a secret
\* is configured.
ProcessLockedAlwaysVerifying(r, db, t, t0) ==
    LET secret == get_webhook_secret(r.provider)
        adapter == get_adapter_for_provider(r.provider)
        badSig == secret # ""
                  /\ ~verify_webhook_signature(adapter, r.signature, secret)
        parsed == parse_webhook(adapter, r.payload)
        err == IF badSig THEN "Invalid webhook signature"
               ELSE IF ~parsed.ok THEN parsed.error ELSE ""
        exc == IF badSig THEN "POSWebhookError"
               ELSE IF ~parsed.ok THEN parsed.exc ELSE ""
    IN  IF err = ""
        THEN [row |-> [r EXCEPT !.status = AfterProcessing.ok, !.processed_at = t,
                                !.processing_duration_ms = t - t0],
              db |-> HandleEvent(db, parsed.event, t), handled |-> TRUE, error |-> "",
              exc |-> "", parsed |-> TRUE]
        ELSE [row |-> [r EXCEPT !.status = AfterProcessing.error, !.processed_at = t,
                                !.processing_duration_ms = t - t0,
                                !.error = err],
              db |-> db, handled |-> FALSE, error |-> err, exc |-> exc,
              parsed |-> ~badSig]

\* A slip: the handler runs before the signature is verified.
ProcessLockedHandlingFirst(r, db, t, t0) ==
    LET secret == get_webhook_secret(r.provider)
        adapter == get_adapter_for_provider(r.provider)
        badSig == secret # "" /\ r.signature # ""
                  /\ ~verify_webhook_signature(adapter, r.signature, secret)
        parsed == parse_webhook(adapter, r.payload)
        err == IF ~parsed.ok THEN parsed.error
               ELSE IF badSig THEN "Invalid webhook signature" ELSE ""
        exc == IF ~parsed.ok THEN parsed.exc
               ELSE IF badSig THEN "POSWebhookError" ELSE ""
    IN  IF err = ""
        THEN [row |-> [r EXCEPT !.status = AfterProcessing.ok, !.processed_at = t,
                                !.processing_duration_ms = t - t0],
              db |-> HandleEvent(db, parsed.event, t), handled |-> TRUE, error |-> "",
              exc |-> "", parsed |-> TRUE]
        ELSE [row |-> [r EXCEPT !.status = AfterProcessing.error, !.processed_at = t,
                                !.processing_duration_ms = t - t0,
                                !.error = err],
              db |-> IF parsed.ok THEN HandleEvent(db, parsed.event, t) ELSE db,
              handled |-> parsed.ok, error |-> err, exc |-> exc,
              parsed |-> TRUE]

\* The body of process_webhook under the lock, on the row r read at the
\* select: the row to save, the other rows, and the error to re-raise.
ProcessLocked(r, db, t, t0) ==
    LET secret == get_webhook_secret(r.provider)
        adapter == get_adapter_for_provider(r.provider)
        badSig == secret # "" /\ r.signature # ""
                  /\ ~verify_webhook_signature(adapter, r.signature, secret)
        parsed == parse_webhook(adapter, r.payload)
        err == IF badSig THEN "Invalid webhook signature"
               ELSE IF ~parsed.ok THEN parsed.error ELSE ""
        exc == IF badSig THEN "POSWebhookError"
               ELSE IF ~parsed.ok THEN parsed.exc ELSE ""
    IN  IF err = ""
        THEN [row |-> [r EXCEPT !.status = AfterProcessing.ok, !.processed_at = t,
                                !.processing_duration_ms = t - t0],
              db |-> HandleEvent(db, parsed.event, t), handled |-> TRUE, error |-> "",
              exc |-> "", parsed |-> TRUE]
        ELSE [row |-> [r EXCEPT !.status = AfterProcessing.error, !.processed_at = t,
                                !.processing_duration_ms = t - t0,
                                !.error = err],
              db |-> db, handled |-> FALSE, error |-> err, exc |-> exc,
              parsed |-> ~badSig]

\* webhook.save(update_fields=[...]): the saved fields of the in-memory row
\* overwrite the stored row's.
SaveFields(stored, r) ==
    [stored EXCEPT !.status = r.status, !.processed_at = r.processed_at,
                   !.processing_duration_ms = r.processing_duration_ms,
                   !.error = r.error]

\* A slip: the error leaves the atomic block as an exception, and the block
\* rolls the save of the failed status back.
RolledBackOnError(stored, r) ==
    IF r.error = "" THEN SaveFields(stored, r.row) ELSE stored

\* The stored row when the atomic block is left: the exception was caught
\* inside the block and kept in error_to_raise, so the block commits the save
\* of either branch.
Committed(stored, r) == SaveFields(stored, r.row)

\* A slip: the queryset is not sliced.
RECURSIVE PendingUnlimited(_, _)
PendingUnlimited(w, limit) ==
    IF w \notin WebhookIds THEN <<>>
    ELSE IF webhooks[w].status = "pending"
    THEN <<w>> \o PendingUnlimited(w + 1, limit)
    ELSE PendingUnlimited(w + 1, limit)

\* The first `limit` pending ids in received_at order (ids are in that order).
RECURSIVE PendingFrom(_, _)
PendingFrom(w, limit) ==
    IF w \notin WebhookIds \/ limit = 0 THEN <<>>
    ELSE IF webhooks[w].status = "pending"
    THEN <<w>> \o PendingFrom(w + 1, limit - 1)
    ELSE PendingFrom(w + 1, limit)


\* ---------------------------------------------------------------------------
\* Specification WebhookSpec: workers calling process_webhook and
\* process_pending_webhooks concurrently
\* ---------------------------------------------------------------------------

\* What a worker holds when it has read no row.
NoRow == [status |-> "none"]

\* What is recorded of a worker that is in no batch.
NoBatch == [selected |-> <<>>, complete |-> TRUE, outcomes |-> <<>>]

\* A record as the intake stores it: pending, or skipped as a duplicate.
InitWebhooks ==
    { [status |-> s, processed_at |-> Null, processing_duration_ms |-> Null,
       error |-> "", provider |-> d.provider, signature |-> d.signature,
       payload |-> d.payload] :
      s \in {"pending", "skipped"}, d \in Deliveries }

WebhookInit ==
    /\ webhooks \in [WebhookIds -> InitWebhooks]
    /\ secrets \in {{}, Providers}
    /\ menuItems = [i \in {"item-1"} |->
                      [is_available |-> TRUE, availability_updated_at |-> Null]]
    /\ modifiers = [i \in {"mod-1"} |-> [is_available |-> TRUE]]
    /\ posOrderRow = [i \in {"ext-1"} |-> [status |-> "confirmed"]]
    /\ wnow = 1
    /\ pc = [p \in Workers |-> "idle"]
    /\ cur = [p \in Workers |-> 0]
    /\ row = [p \in Workers |-> NoRow]
    /\ started = [p \in Workers |-> 0]
    /\ inBatch = [p \in Workers |-> FALSE]
    /\ queue = [p \in Workers |-> <<>>]
    /\ count = [p \in Workers |-> 0]
    /\ skips = [w \in WebhookIds |-> 0]
    /\ applied = [w \in WebhookIds |-> 0]
    /\ saves = [w \in WebhookIds |-> 0]
    /\ overlapped = [w \in WebhookIds |-> FALSE]
    /\ raising = [p \in Workers |-> ""]
    /\ parses = [w \in WebhookIds |-> 0]
    /\ batch = [p \in Workers |-> NoBatch]

\* Worker p enters process_webhook(w): start_time is taken and the
\* transaction opens.
Enter(p, w) ==
    /\ wnow < MaxWClock
    /\ wnow' = wnow + 1
    /\ cur' = [cur EXCEPT ![p] = w]
    /\ started' = [started EXCEPT ![p] = wnow + 1]
    /\ pc' = [pc EXCEPT ![p] = "waiting"]
    /\ overlapped' = [overlapped EXCEPT ![w] =
          @ \/ \E q \in Workers \ {p} : pc[q] \in {"waiting", "locked"} /\ cur[q] = w]

\* A slip: the loop of the batch has no try/except, the call's end is the
\* batch's end.
BackToCaller(p) == "idle"

\* Where a worker goes when its process_webhook call is over.
Back(p) == IF inBatch[p] THEN "batch" ELSE "idle"

CallProcessWebhook(p, w) ==
    /\ pc[p] = "idle"
    /\ Enter(p, w)
    /\ UNCHANGED <<webhooks, secrets, menuItems, modifiers, posOrderRow, row, inBatch,
                   queue, count, skips, applied, saves, raising, parses, batch>>

\* POSWebhookEvent.objects.select_for_update().get(id=webhook_id)
Lock(p) ==
    /\ pc[p] = "waiting"
    /\ LockFree(p, cur[p])
    /\ row' = [row EXCEPT ![p] = webhooks[cur[p]]]
    /\ pc' = [pc EXCEPT ![p] = "locked"]
    /\ UNCHANGED <<webhooks, secrets, menuItems, modifiers, posOrderRow, wnow, cur,
                   started, inBatch, queue, count, skips, applied, saves, overlapped,
                   raising, parses, batch>>

\* The rest of the transaction, to its commit: the skip, or verification, parse,
\* handler and the save of the record.
Finish(p) ==
    /\ pc[p] = "locked"
    /\ LET w == cur[p]
           r == ProcessLocked(row[p],
                              [menuItems |-> menuItems, modifiers |-> modifiers,
                               orders |-> posOrderRow],
                              wnow, started[p])
       IN  IF AlreadyProcessed(row[p])
           THEN /\ skips' = [skips EXCEPT ![w] = @ + 1]
                /\ pc' = [pc EXCEPT ![p] = Back(p)]
                /\ cur' = [cur EXCEPT ![p] = 0]
                /\ count' = [count EXCEPT ![p] = IF inBatch[p] THEN @ + 1 ELSE @]
                /\ UNCHANGED <<webhooks, menuItems, modifiers, posOrderRow, applied,
                               saves, raising, parses>>
           ELSE /\ webhooks' = [webhooks EXCEPT ![w] = Committed(@, r)]
                /\ parses' = [parses EXCEPT ![w] = IF r.parsed THEN @ + 1 ELSE @]
                /\ raising' = [raising EXCEPT ![p] = r.exc]
                /\ menuItems' = r.db.menuItems
                /\ modifiers' = r.db.modifiers
                /\ posOrderRow' = r.db.orders
                /\ applied' = [applied EXCEPT ![w] = IF r.handled THEN @ + 1 ELSE @]
                /\ saves' = [saves EXCEPT ![w] = @ + 1]
                /\ skips' = skips
                /\ IF r.error = ""
                   THEN /\ pc' = [pc EXCEPT ![p] = Back(p)]
                        /\ cur' = [cur EXCEPT ![p] = 0]
                        /\ count' = [count EXCEPT ![p] = IF inBatch[p] THEN @ + 1 ELSE @]
                   ELSE /\ pc' = [pc EXCEPT ![p] = "raise"]
                        /\ UNCHANGED <<cur, count>>
    /\ batch' = [batch EXCEPT ![p] =
          IF inBatch[p]
          THEN [@ EXCEPT !.outcomes =
                   Append(@, [id |-> cur[p],
                              raised |-> ~AlreadyProcessed(row[p])
                                         /\ ProcessLocked(row[p],
                                               [menuItems |-> menuItems,
                                                modifiers |-> modifiers,
                                                orders |-> posOrderRow],
                                               wnow, started[p]).error # ""])]
          ELSE @]
    /\ row' = [row EXCEPT ![p] = NoRow]
    /\ started' = [started EXCEPT ![p] = 0]
    /\ UNCHANGED <<secrets, wnow, inBatch, queue, overlapped>>

\* The error is re-raised outside the transaction; a batch logs it and goes on.
Raise(p) ==
    /\ pc[p] = "raise"
    /\ pc' = [pc EXCEPT ![p] = Back(p)]
    /\ cur' = [cur EXCEPT ![p] = 0]
    /\ raising' = [raising EXCEPT ![p] = ""]
    /\ UNCHANGED <<webhooks, secrets, menuItems, modifiers, posOrderRow, wnow, row,
                   started, inBatch, queue, count, skips, applied, saves, overlapped,
                   parses, batch>>

\* process_pending_webhooks(limit): the pending records are selected.
StartBatch(p, limit) ==
    /\ pc[p] = "idle"
    /\ pc' = [pc EXCEPT ![p] = "batch"]
    /\ inBatch' = [inBatch EXCEPT ![p] = TRUE]
    /\ queue' = [queue EXCEPT ![p] = PendingFrom(1, limit)]
    /\ count' = [count EXCEPT ![p] = 0]
    /\ batch' = [batch EXCEPT ![p] =
          [selected |-> PendingFrom(1, limit),
           complete |-> Cardinality({w \in WebhookIds :
                                       webhooks[w].status = "pending"}) <= limit,
           outcomes |-> <<>>]]
    /\ UNCHANGED <<webhooks, secrets, menuItems, modifiers, posOrderRow, wnow, cur, row,
                   started, skips, applied, saves, overlapped, raising, parses>>

\* The loop calls process_webhook for the next selected record.
BatchStep(p) ==
    /\ pc[p] = "batch"
    /\ queue[p] # <<>>
    /\ Enter(p, Head(queue[p]))
    /\ queue' = [queue EXCEPT ![p] = Tail(@)]
    /\ UNCHANGED <<webhooks, secrets, menuItems, modifiers, posOrderRow, row, inBatch,
                   count, skips, applied, saves, raising, parses, batch>>

\* The loop is over: processed_count, as it stands, is returned.
BatchDone(p) ==
    /\ pc[p] = "batch"
    /\ queue[p] = <<>>
    /\ pc' = [pc EXCEPT ![p] = "idle"]
    /\ inBatch' = [inBatch EXCEPT ![p] = FALSE]
    /\ count' = [count EXCEPT ![p] = 0]
    /\ batch' = [batch EXCEPT ![p] = NoBatch]
    /\ UNCHANGED <<webhooks, secrets, menuItems, modifiers, posOrderRow, wnow, cur, row,
                   started, queue, skips, applied, saves, overlapped, raising, parses>>

WebhookNext ==
    \/ \E p \in Workers, w \in WebhookIds : CallProcessWebhook(p, w)
    \/ \E p \in Workers : Lock(p)
    \/ \E p \in Workers : Finish(p)
    \/ \E p \in Workers : Raise(p)
    \/ \E p \in Workers, limit \in 1..MaxLimit : StartBatch(p, limit)
    \/ \E p \in Workers : BatchStep(p)
    \/ \E p \in Workers : BatchDone(p)

\* ---------------------------------------------------------------------------
\* Specification ConcurrentSubmitSpec: callers of submit_order_to_pos for the
\* one order, interleaved between the load of the order, the POS call and the
\* save of the POS response
\* ---------------------------------------------------------------------------

NoOrder == [status |-> "none"]
NoResponse == [ok |-> FALSE]

\* A slip: the checks read the stored row again instead of the loaded instance.
SeenStored(p) == order

\* The order the checks of the call read: the instance loaded by .get(pk=...).
Seen(p) == held[p]

\* order.save(update_fields=["status"]) of the no-POS branch.
SaveStatus(stored, o) == [stored EXCEPT !.status = o.status]

\* order.save(update_fields=["external_id", "status", "submitted_at",
\* "confirmation_code", "estimated_ready_time"]) inside transaction.atomic.
SavePosFields(stored, o) ==
    [stored EXCEPT !.external_id = o.external_id,
                   !.status = o.status,
                   !.submitted_at = o.submitted_at,
                   !.confirmation_code = o.confirmation_code,
                   !.estimated_ready_time = o.estimated_ready_time]

SubmittersAtRest ==
    /\ spc = [p \in Workers |-> "idle"]
    /\ held = [p \in Workers |-> NoOrder]
    /\ resp = [p \in Workers |-> NoResponse]
    /\ nCalls = 0
    /\ writes = <<>>

\* Order.objects...get(pk=order_id): the caller loads the order.
SubmitLoad(p) ==
    /\ spc[p] = "idle"
    /\ nCalls < MaxSubmitCalls
    /\ nCalls' = nCalls + 1
    /\ held' = [held EXCEPT ![p] = order]
    /\ spc' = [spc EXCEPT ![p] = "loaded"]
    /\ UNCHANGED <<order, profile, hasCreds, now, posOrders, resp, writes>>

\* The checks on the loaded instance and, when they pass, the call of the
\* adapter: the early return, the refusal, the local confirmation, a POS
\* error, or a POS order whose response is yet to be saved.
SubmitCall(p) ==
    /\ spc[p] = "loaded"
    /\ \E authOk \in AuthOutcomes :
         LET s == submit_order_to_pos(ExistingOrder, Seen(p), profile, posOrders, now,
                                      authOk)
         IN  IF s.created
             THEN /\ resp' = [resp EXCEPT ![p] = create_order(AdapterOf(profile),
                                                              posOrders, now)]
                  /\ posOrders' = posOrders + 1
                  /\ now' = now + 1
                  /\ spc' = [spc EXCEPT ![p] = "created"]
                  /\ UNCHANGED <<order, held>>
             ELSE /\ order' = IF s.order # Seen(p) THEN SaveStatus(order, s.order)
                              ELSE order
                  /\ held' = [held EXCEPT ![p] = NoOrder]
                  /\ spc' = [spc EXCEPT ![p] = "idle"]
                  /\ UNCHANGED <<resp, posOrders, now>>
    /\ UNCHANGED <<profile, hasCreds, nCalls, writes>>

\* The update of the loaded instance with the POS response and its save.
SubmitPersist(p) ==
    /\ spc[p] = "created"
    /\ order' = SavePosFields(order, UpdateWithPosResponse(held[p], resp[p], now))
    /\ writes' = Append(writes, resp[p].external_id)
    /\ held' = [held EXCEPT ![p] = NoOrder]
    /\ resp' = [resp EXCEPT ![p] = NoResponse]
    /\ spc' = [spc EXCEPT ![p] = "idle"]
    /\ UNCHANGED <<profile, hasCreds, now, posOrders, nCalls>>

ConcurrentSubmitNext ==
    \/ \E p \in Workers : SubmitLoad(p)
    \/ \E p \in Workers : SubmitCall(p)
    \/ \E p \in Workers : SubmitPersist(p)

\* The orders the concurrent callers start from: paid orders in every status,
\* submitted or not.
ConcurrentSubmitOrders ==
    { o \in InitOrders :
        o.payment_status = "captured" /\ o.stripe_payment_intent_id = "pi_1" }

\* ---------------------------------------------------------------------------
\* HTTP requests of the Toast, Clover and Square adapters: _request_with_retry
\* ---------------------------------------------------------------------------

\* ToastAdapter.MAX_RETRIES, CloverAdapter.MAX_RETRIES, SquareAdapter.MAX_RETRIES
HTTP_MAX_RETRIES == 3
RETRY_BACKOFF_BASE == 2

RECURSIVE Pow(_, _)
Pow(b, e) == IF e = 0 THEN 1 ELSE b * Pow(b, e - 1)

\* Header values are strings, written as sequences of characters.
DigitChars == <<"0", "1", "2", "3", "4", "5", "6", "7", "8", "9">>
DigitValue(c) == CHOOSE d \in 0..9 : DigitChars[d + 1] = c
IsDecimal(s) == Len(s) > 0 /\ \A i \in 1..Len(s) : \E d \in 0..9 : DigitChars[d + 1] = s[i]

RECURSIVE DecimalValue(_)
DecimalValue(s) ==
    IF s = <<>> THEN 0
    ELSE 10 * DecimalValue(SubSeq(s, 1, Len(s) - 1)) + DigitValue(s[Len(s)])

\* int(s) of Python, on the strings of the model (digits, letters, commas,
\* colons and blanks): the decimal value, or ValueError.
int(s) ==
    IF IsDecimal(s) THEN [ok |-> TRUE, value |-> DecimalValue(s)]
    ELSE [ok |-> FALSE, value |-> 0]

\* The Retry-After header of a response: absent, a delay in seconds, or an
\* HTTP-date.
NoHeader == [present |-> FALSE, value |-> <<>>]
Header(s) == [present |-> TRUE, value |-> s]
RetryAfterHeaders ==
    { NoHeader,
      Header(<<"3", "0">>),
      Header(<<"1", "2", "0">>),
      Header(<<"W", "e", "d", ",", " ", "2", "1", " ", "O", "c", "t", " ",
               "2", "0", "1", "5", " ", "0", "7", ":", "2", "8", ":", "0", "0",
               " ", "G", "M", "T">>) }

\* response.headers.get("Retry-After", "60")
RetryAfterOr60(h) == IF h.present THEN h.value ELSE <<"6", "0">>

\* What self._client.request gives: a response, or a transport failure
\* (httpx.RequestError).
Response(status, h) == [kind |-> "response", status |-> status, retry_after |-> h]
TransportFailure == [kind |-> "RequestError", status |-> 0, retry_after |-> NoHeader]
Responses ==
    { Response(200, NoHeader), Response(401, NoHeader), Response(404, NoHeader),
      Response(500, NoHeader), TransportFailure }
    \cup { Response(429, h) : h \in RetryAfterHeaders }

\* response.raise_for_status() passes a 2xx response.
is_success(status) == 200 <= status /\ status <= 299

\* A slip: no check for 401, which raise_for_status then turns into an
\* HTTPStatusError like any other 4xx.
StatusErrorWithoutAuthCheck(status) ==
    IF status = 429 THEN "POSRateLimitError"
    ELSE IF is_success(status) THEN ""
    ELSE "HTTPStatusError"

\* The exception the body of the try raises for a response with this status,
\* "" for none: the 429 check, the 401 check, then raise_for_status.
StatusError(status) ==
    IF status = 429 THEN "POSRateLimitError"
    ELSE IF status = 401 THEN "POSAuthError"
    ELSE IF is_success(status) THEN ""
    ELSE "HTTPStatusError"

\* A slip: only transport failures are caught.
CaughtTransportOnly(e) == e = "RequestError"

\* except (httpx.RequestError, httpx.HTTPStatusError)
CaughtForRetry(e) == e \in {"RequestError", "HTTPStatusError"}

\* A slip: one attempt too many.
InRangeInclusive(n) == 0 <= n /\ n <= HTTP_MAX_RETRIES

\* range(self.MAX_RETRIES)
InRange(n) == 0 <= n /\ n < HTTP_MAX_RETRIES

\* A backoff after every failed attempt, the last one included.
BackoffAfterEvery(n) == Pow(RETRY_BACKOFF_BASE, n)

\* The seconds asyncio.sleep is awaited for after a failed attempt n (0: the
\* sleep is skipped, after the last attempt of the range).
Backoff(n) == IF n < HTTP_MAX_RETRIES - 1 THEN Pow(RETRY_BACKOFF_BASE, n) ELSE 0

\* What one pass awaits before the answer is looked at: the rate limiter's
\* acquire, then the request of the HTTP client.
AttemptSteps ==
    << [op |-> "acquire", seconds |-> 0], [op |-> "request", seconds |-> 0] >>

\* The sleep of a pass that ends in a retry.
BackoffSteps(b) ==
    IF b.kind = "retry" /\ b.sleep > 0
    THEN << [op |-> "sleep", seconds |-> b.sleep] >>
    ELSE << >>

\* One pass of the loop body with the given answer of the server: the call
\* returns, raises, or goes on to the next attempt after its backoff sleep.
LoopBody(n, response) ==
    LET e == IF response.kind = "RequestError" THEN "RequestError"
             ELSE StatusError(response.status)
        ra == int(RetryAfterOr60(response.retry_after))
    IN  IF e = ""
        THEN [kind |-> "return", exc |-> "", retry_after |-> 0, sleep |-> 0]
        ELSE IF e = "POSRateLimitError"
        THEN IF ra.ok
             THEN [kind |-> "raise", exc |-> e, retry_after |-> ra.value, sleep |-> 0]
             ELSE [kind |-> "raise", exc |-> "ValueError", retry_after |-> 0,
                   sleep |-> 0]
        ELSE IF CaughtForRetry(e)
        THEN [kind |-> "retry", exc |-> e, retry_after |-> 0,
              sleep |-> Backoff(n)]
        ELSE [kind |-> "raise", exc |-> e, retry_after |-> 0, sleep |-> 0]

\* What a call has produced while it is running or before any call.
NoOutcome == [kind |-> "none", exc |-> "", retry_after |-> 0, attempts |-> 0,
              response |-> TransportFailure, last_error |-> ""]

RequestsAtRest ==
    /\ httpAdapter = "toast"
    /\ rpc = "idle"
    /\ attempt = 0
    /\ last_error = ""
    /\ sent = <<>>
    /\ slept = <<>>
    /\ steps = <<>>
    /\ outcome = NoOutcome

RequestInit ==
    /\ httpAdapter \in Providers
    /\ rpc = "idle"
    /\ attempt = 0
    /\ last_error = ""
    /\ sent = <<>>
    /\ slept = <<>>
    /\ steps = <<>>
    /\ outcome = NoOutcome

\* A caller enters _request_with_retry: last_error = None, the loop starts.
CallRequestWithRetry ==
    /\ rpc \in {"idle", "returned", "raised"}
    /\ rpc' = "loop"
    /\ attempt' = 0
    /\ last_error' = ""
    /\ sent' = <<>>
    /\ slept' = <<>>
    /\ steps' = <<>>
    /\ outcome' = NoOutcome
    /\ UNCHANGED httpAdapter

\* One attempt: the limiter is acquired, the request is sent and answered, and
\* the answer is handled. After the last attempt of the range the loop is left
\* and POSAPIError names the number of attempts and the last error.
RequestAttempt(response) ==
    /\ rpc = "loop"
    /\ InRange(attempt)
    /\ sent' = Append(sent, response)
    /\ steps' = steps \o AttemptSteps \o BackoffSteps(LoopBody(attempt, response))
    /\ LET b == LoopBody(attempt, response)
       IN  CASE b.kind = "return" ->
                  /\ rpc' = "returned"
                  /\ outcome' = [NoOutcome EXCEPT !.kind = "response",
                                                  !.response = response,
                                                  !.last_error = last_error]
                  /\ UNCHANGED <<attempt, last_error, slept>>
             [] b.kind = "raise" ->
                  /\ rpc' = "raised"
                  /\ outcome' = [NoOutcome EXCEPT !.kind = "raise", !.exc = b.exc,
                                                  !.retry_after = b.retry_after,
                                                  !.last_error = last_error]
                  /\ UNCHANGED <<attempt, last_error, slept>>
             [] b.kind = "retry" ->
                  /\ last_error' = b.exc
                  /\ slept' = IF b.sleep > 0 THEN Append(slept, b.sleep) ELSE slept
                  /\ attempt' = attempt + 1
                  /\ IF InRange(attempt + 1)
                     THEN /\ rpc' = "loop"
                          /\ outcome' = outcome
                     ELSE /\ rpc' = "raised"
                          /\ outcome' = [NoOutcome EXCEPT !.kind = "raise",
                                                          !.exc = "POSAPIError",
                                                          !.attempts = HTTP_MAX_RETRIES,
                                                          !.last_error = b.exc]
    /\ UNCHANGED httpAdapter

RequestNext ==
    \/ CallRequestWithRetry
    \/ \E response \in Responses : RequestAttempt(response)


\* ---------------------------------------------------------------------------
\* The rate limiter of the adapters: RateLimiter.acquire, and the limiters a
\* ToastAdapter keeps per location
\* ---------------------------------------------------------------------------

\* Clock readings per second, and the last reading of the model.
TicksPerSecond == 2
MaxTime == 5

\* ToastAdapter.REQUESTS_PER_SECOND
REQUESTS_PER_SECOND == 1

\* RateLimiter.__init__: self.min_interval = 1.0 / requests_per_second
min_interval == TicksPerSecond \div REQUESTS_PER_SECOND

ToastAdapters == {"adapter-1", "adapter-2"}
LocationIds == {"location-1", "location-2"}
Callers == {"task-1", "task-2", "task-3"}

\* The requests the tasks send: two locations through one adapter, and one of
\* them through a second adapter as well.
Requests ==
    { <<"adapter-1", "location-1">>, <<"adapter-1", "location-2">>,
      <<"adapter-2", "location-1">> }

\* RateLimiter.__init__: no request yet, the lock free.
NewLimiter == [last_request |-> Null, holder |-> "none"]

\* location_id in self._rate_limiters
HasLimiter(a, location_id) == rate_limiters[a][location_id] # 0

\* A slip: acquire without the lock.
LockAlwaysFree(l) == TRUE

\* asyncio.Lock: free when no task holds it.
LockIsFree(l) == l.holder = "none"

\* The sleep of acquire at time t: 0 when there was no request yet or the
\* interval has elapsed, else the rest of the interval.
SleepNeeded(l, t) ==
    IF l.last_request # Null /\ t - l.last_request < min_interval
    THEN min_interval - (t - l.last_request)
    ELSE 0

LimiterInit ==
    /\ rate_limiters = [a \in ToastAdapters |-> [loc \in LocationIds |-> 0]]
    /\ limiters = <<>>
    /\ lpc = [c \in Callers |-> "idle"]
    /\ using = [c \in Callers |-> 0]
    /\ wake = [c \in Callers |-> 0]
    /\ clock = 1

\* Task c, holding the lock of limiter i of ls, runs the body of acquire up to
\* its await or its end.
UnderLock(c, i, ls) ==
    IF SleepNeeded(ls[i], clock) > 0
    THEN /\ limiters' = [ls EXCEPT ![i].holder = c]
         /\ lpc' = [lpc EXCEPT ![c] = "sleeping"]
         /\ using' = [using EXCEPT ![c] = i]
         /\ wake' = [wake EXCEPT ![c] = clock + SleepNeeded(ls[i], clock)]
    ELSE /\ limiters' = [ls EXCEPT ![i] = [last_request |-> clock, holder |-> "none"]]
         /\ lpc' = [lpc EXCEPT ![c] = "idle"]
         /\ using' = [using EXCEPT ![c] = 0]
         /\ wake' = [wake EXCEPT ![c] = 0]

\* Task c sends a request of adapter a for a location: _get_rate_limiter, then
\* acquire up to its first await.
Acquire(c, a, location_id) ==
    /\ lpc[c] = "idle"
    /\ LET has == HasLimiter(a, location_id)
           i == IF has THEN rate_limiters[a][location_id] ELSE Len(limiters) + 1
           ls == IF has THEN limiters ELSE Append(limiters, NewLimiter)
       IN  /\ rate_limiters' = [rate_limiters EXCEPT ![a][location_id] = i]
           /\ IF LockIsFree(ls[i])
              THEN UnderLock(c, i, ls)
              ELSE /\ limiters' = ls
                   /\ lpc' = [lpc EXCEPT ![c] = "waiting"]
                   /\ using' = [using EXCEPT ![c] = i]
                   /\ wake' = wake
    /\ UNCHANGED clock

\* A waiting task gets the lock.
LockAcquired(c) ==
    /\ lpc[c] = "waiting"
    /\ LockIsFree(limiters[using[c]])
    /\ UnderLock(c, using[c], limiters)
    /\ UNCHANGED <<rate_limiters, clock>>

\* asyncio.sleep is over: last_request is set and the lock released.
Wake(c) ==
    /\ lpc[c] = "sleeping"
    /\ clock >= wake[c]
    /\ limiters' = [limiters EXCEPT ![using[c]] =
                       [last_request |-> clock, holder |-> "none"]]
    /\ lpc' = [lpc EXCEPT ![c] = "idle"]
    /\ using' = [using EXCEPT ![c] = 0]
    /\ wake' = [wake EXCEPT ![c] = 0]
    /\ UNCHANGED <<rate_limiters, clock>>

\* Time passes.
Tick ==
    /\ clock < MaxTime
    /\ clock' = clock + 1
    /\ UNCHANGED <<rate_limiters, limiters, lpc, using, wake>>

LimiterNext ==
    \/ \E c \in Callers, r \in Requests : Acquire(c, r[1], r[2])
    \/ \E c \in Callers : LockAcquired(c)
    \/ \E c \in Callers : Wake(c)
    \/ Tick


\* ---------------------------------------------------------------------------
\* MockPOSAdapter: the unavailable items and the tracked orders of one instance
\* ---------------------------------------------------------------------------

MockItems == {"item-pancakes", "item-scrambled"}

\* The items of a POSOrder, in order: none, one or two.
MockOrderItems ==
    {<<>>} \cup { <<i>> : i \in MockItems } \cup { <<i, j>> : i, j \in MockItems }

\* The ids uuid4().hex[:8] can give; it may give one it gave before.
MockOrderIds == {"mock-order-1a2b3c4d", "mock-order-5e6f7a8b"}
UnknownOrderId == "nonexistent-order"

MockStatuses == {"confirmed", "preparing", "ready"}

\* A slip: the availability of the items is not checked.
NoneUnavailable(items, unavailable) == {}

\* The positions of the order's items that are in the unavailable set.
UnavailableAt(items, unavailable) ==
    { k \in 1..Len(items) : items[k] \in unavailable }

\* MockPOSAdapter.create_order up to the creation: "" when the order can be
\* created, else the message of the POSOrderError, and the item it names.
CreateOrderCheck(fail, unavailable, items) ==
    LET bad == UnavailableAt(items, unavailable)
    IN  IF fail
        THEN [ok |-> FALSE, exc |-> "POSOrderError",
              message |-> "Mock order creation failure", item |-> ""]
        ELSE IF bad # {}
        THEN [ok |-> FALSE, exc |-> "POSOrderError",
              message |-> "Item is unavailable",
              item |-> items[CHOOSE k \in bad : \A m \in bad : k <= m]]
        ELSE [ok |-> TRUE, exc |-> "", message |-> "", item |-> ""]

\* What is recorded of the last call to the adapter.
NoMockCall ==
    [op |-> "none", items |-> <<>>, id |-> "", ok |-> FALSE, exc |-> "",
     message |-> "", item |-> "", status |-> "", status_code |-> 0,
     unavailable_before |-> {}, orders_before |-> {}]

MockInit ==
    /\ fail_orders \in BOOLEAN
    /\ unavailable_items \in SUBSET MockItems
    /\ mock_orders = [i \in {} |-> ""]
    /\ issued = {}
    /\ touched = {}
    /\ mlast = NoMockCall

MockAtRest ==
    /\ fail_orders = FALSE
    /\ unavailable_items = {}
    /\ mock_orders = [i \in {} |-> ""]
    /\ issued = {}
    /\ touched = {}
    /\ mlast = NoMockCall

MockCall(op) ==
    [NoMockCall EXCEPT !.op = op, !.unavailable_before = unavailable_items,
                       !.orders_before = DOMAIN mock_orders]

set_item_unavailable(item_id) ==
    /\ unavailable_items' = unavailable_items \cup {item_id}
    /\ mlast' = [MockCall("set_item_unavailable") EXCEPT !.item = item_id]
    /\ UNCHANGED <<fail_orders, mock_orders, issued, touched>>

set_item_available(item_id) ==
    /\ unavailable_items' = unavailable_items \ {item_id}
    /\ mlast' = [MockCall("set_item_available") EXCEPT !.item = item_id]
    /\ UNCHANGED <<fail_orders, mock_orders, issued, touched>>

\* create_order for an order with these items; order_id is the id uuid4 gives
\* when the order is created.
mock_create_order(items, order_id) ==
    LET c == CreateOrderCheck(fail_orders, unavailable_items, items)
    IN  /\ IF c.ok
           THEN /\ mock_orders' =
                      [i \in DOMAIN mock_orders \cup {order_id} |->
                         IF i = order_id THEN "confirmed" ELSE mock_orders[i]]
                /\ issued' = issued \cup {order_id}
                /\ touched' = touched \ {order_id}
                /\ mlast' = [MockCall("create_order") EXCEPT
                                !.items = items, !.ok = TRUE, !.id = order_id,
                                !.status = "confirmed"]
           ELSE /\ mlast' = [MockCall("create_order") EXCEPT
                                !.items = items, !.exc = c.exc,
                                !.message = c.message, !.item = c.item]
                /\ UNCHANGED <<mock_orders, issued, touched>>
        /\ UNCHANGED <<fail_orders, unavailable_items>>

\* set_order_status: only a tracked order is updated.
set_order_status(order_id, status) ==
    /\ IF order_id \in DOMAIN mock_orders
       THEN /\ mock_orders' = [mock_orders EXCEPT ![order_id] = status]
            /\ touched' = touched \cup {order_id}
       ELSE UNCHANGED <<mock_orders, touched>>
    /\ mlast' = [MockCall("set_order_status") EXCEPT !.id = order_id,
                                                     !.status = status]
    /\ UNCHANGED <<fail_orders, unavailable_items, issued>>

\* get_order_status: the tracked status, or POSAPIError with status_code 404.
get_order_status(order_id) ==
    /\ mlast' = IF order_id \in DOMAIN mock_orders
                THEN [MockCall("get_order_status") EXCEPT
                         !.id = order_id, !.ok = TRUE,
                         !.status = mock_orders[order_id]]
                ELSE [MockCall("get_order_status") EXCEPT
                         !.id = order_id, !.exc = "POSAPIError",
                         !.message = "Order not found", !.status_code = 404]
    /\ UNCHANGED <<fail_orders, unavailable_items, mock_orders, issued, touched>>

MockNext ==
    \/ \E i \in MockItems : set_item_unavailable(i)
    \/ \E i \in MockItems : set_item_available(i)
    \/ \E items \in MockOrderItems, id \in MockOrderIds : mock_create_order(items, id)
    \/ \E id \in MockOrderIds \cup {UnknownOrderId}, s \in MockStatuses :
          set_order_status(id, s)
    \/ \E id \in MockOrderIds \cup {UnknownOrderId} : get_order_status(id)


\* ---------------------------------------------------------------------------
\* The specifications. Each leaves the other subsystems at rest.
\* ---------------------------------------------------------------------------

OrderAtRest ==
    /\ order = [status |-> "pending", payment_status |-> "pending",
                external_id |-> NoId, stripe_payment_intent_id |-> "",
                confirmation_code |-> "", submitted_at |-> Null,
                estimated_ready_time |-> Null]
    /\ profile = NoProfile
    /\ hasCreds = FALSE
    /\ now = 1
    /\ posOrders = 0
    /\ refunds = <<>>
    /\ last = Call("none", 0, -1, FALSE, order, NoCall)
    /\ attempts = 0
    /\ nextRc = -1

WebhooksAtRest ==
    /\ webhooks = [w \in WebhookIds |->
                     [status |-> "skipped", processed_at |-> Null,
                      processing_duration_ms |-> Null, error |-> "",
                      provider |-> "toast", signature |-> "",
                      payload |-> [event_type |-> "menu_updated", id |-> "menu-1",
                                   value |-> ""]]]
    /\ secrets = {}
    /\ menuItems = [i \in {"item-1"} |->
                      [is_available |-> TRUE, availability_updated_at |-> Null]]
    /\ modifiers = [i \in {"mod-1"} |-> [is_available |-> TRUE]]
    /\ posOrderRow = [i \in {"ext-1"} |-> [status |-> "confirmed"]]
    /\ wnow = 1
    /\ pc = [p \in Workers |-> "idle"]
    /\ cur = [p \in Workers |-> 0]
    /\ row = [p \in Workers |-> NoRow]
    /\ started = [p \in Workers |-> 0]
    /\ inBatch = [p \in Workers |-> FALSE]
    /\ queue = [p \in Workers |-> <<>>]
    /\ count = [p \in Workers |-> 0]
    /\ skips = [w \in WebhookIds |-> 0]
    /\ applied = [w \in WebhookIds |-> 0]
    /\ saves = [w \in WebhookIds |-> 0]
    /\ overlapped = [w \in WebhookIds |-> FALSE]
    /\ raising = [p \in Workers |-> ""]
    /\ parses = [w \in WebhookIds |-> 0]
    /\ batch = [p \in Workers |-> NoBatch]

\* ---------------------------------------------------------------------------
\* Webhook signature verification of the adapters (SignatureSpec)
\*
\* Byte strings are sequences of small naturals, text strings are sequences
\* of one-character strings.  HMAC-SHA256 is idealised as a keyed function
\* without collisions: the digest is an injective encoding of the key, padded
\* as HMAC pads it, and of the message.  The digest is three bytes wide here.
\* ---------------------------------------------------------------------------

\* An injective numbering of the strings of bytes 0 .. 9 (bijective base 11).
RECURSIVE Enc(_)
Enc(s) ==
    IF s = <<>> THEN 0
    ELSE Enc(SubSeq(s, 1, Len(s) - 1)) * 11 + (s[Len(s)] + 1)

\* HMAC extends a key shorter than the block size with zero bytes, so the
\* trailing zero bytes of a key do not change the digest.
RECURSIVE PadKey(_)
PadKey(key) ==
    IF key # <<>> /\ key[Len(key)] = 0
    THEN PadKey(SubSeq(key, 1, Len(key) - 1))
    ELSE key

\* hmac.new(key, msg, hashlib.sha256).digest(), as a 24-bit number: the key
\* in the upper byte, the message in the lower two.
HmacSha256(key, msg) == (Enc(PadKey(key)) % 256) * 65536 + (Enc(msg) % 65536)

HexDigits ==
    <<"0", "1", "2", "3", "4", "5", "6", "7",
      "8", "9", "a", "b", "c", "d", "e", "f">>

\* .hexdigest(): six lower-case hexadecimal digits.
hexdigest(n) ==
    << HexDigits[((n \div 1048576) % 16) + 1], HexDigits[((n \div 65536) % 16) + 1],
       HexDigits[((n \div 4096) % 16) + 1], HexDigits[((n \div 256) % 16) + 1],
       HexDigits[((n \div 16) % 16) + 1], HexDigits[(n % 16) + 1] >>

Base64Alphabet ==
    <<"A", "B", "C", "D", "E", "F", "G", "H", "I", "J", "K", "L", "M",
      "N", "O", "P", "Q", "R", "S", "T", "U", "V", "W", "X", "Y", "Z",
      "a", "b", "c", "d", "e", "f", "g", "h", "i", "j", "k", "l", "m",
      "n", "o", "p", "q", "r", "s", "t", "u", "v", "w", "x", "y", "z",
      "0", "1", "2", "3", "4", "5", "6", "7", "8", "9", "+", "/">>

\* base64.b64encode(digest).decode() of a three-byte digest: four characters.
b64encode(n) ==
    << Base64Alphabet[((n \div 262144) % 64) + 1], Base64Alphabet[((n \div 4096) % 64) + 1],
       Base64Alphabet[((n \div 64) % 64) + 1], Base64Alphabet[(n % 64) + 1] >>

LowerOf(c) ==
    CASE c = "A" -> "a" [] c = "B" -> "b" [] c = "C" -> "c"
      [] c = "D" -> "d" [] c = "E" -> "e" [] c = "F" -> "f"
      [] c = "I" -> "i" [] c = "N" -> "n" [] c = "V" -> "v"
      [] OTHER -> c

UpperOf(c) ==
    CASE c = "a" -> "A" [] c = "b" -> "B" [] c = "c" -> "C"
      [] c = "d" -> "D" [] c = "e" -> "E" [] c = "f" -> "F"
      [] OTHER -> c

\* str.lower() and str.upper() over the characters the signatures use.
lower(s) == [i \in 1..Len(s) |-> LowerOf(s[i])]
upper(s) == [i \in 1..Len(s) |-> UpperOf(s[i])]

\* hmac.compare_digest on ASCII strings: equality.
compare_digest(a, b) == a = b

\* No notification URL given (None or "").
NoUrl == <<>>

\* A verification that does not depend on the secret.
verify_ignoring_key(payload, signature, secret) ==
    compare_digest(lower(signature), lower(hexdigest(HmacSha256(<<>>, payload))))

\* ToastAdapter.verify_webhook_signature and CloverAdapter's: hexadecimal
\* HMAC-SHA256 of the payload, both sides lower-cased before the comparison.
verify_lowercased(payload, signature, secret) ==
    compare_digest(lower(signature), lower(hexdigest(HmacSha256(secret, payload))))

\* MockPOSAdapter.verify_webhook_signature: the same digest, compared as is.
verify_exact(payload, signature, secret) ==
    compare_digest(signature, hexdigest(HmacSha256(secret, payload)))

\* A verification that rejects what it cannot verify.
verify_square_strict(payload, signature, secret, notification_url) ==
    /\ notification_url # NoUrl
    /\ compare_digest(signature,
                      b64encode(HmacSha256(secret, notification_url \o payload)))

\* SquareAdapter.verify_webhook_signature: without a notification URL nothing
\* can be verified and the webhook is accepted; with one, base64 of the
\* HMAC-SHA256 of URL + body.
verify_square(payload, signature, secret, notification_url) ==
    IF notification_url = NoUrl
    THEN TRUE
    ELSE compare_digest(signature,
                        b64encode(HmacSha256(secret, notification_url \o payload)))

SignatureAdapters == {"toast", "clover", "mock", "square"}

verify_webhook_signature_of(adapter, payload, signature, secret, notification_url) ==
    CASE adapter \in {"toast", "clover"} -> verify_lowercased(payload, signature, secret)
      [] adapter = "mock" -> verify_exact(payload, signature, secret)
      [] adapter = "square" -> verify_square(payload, signature, secret, notification_url)

\* Request bodies: two of the same length that differ in one byte, and one
\* with a byte more.
SigPayloads == { <<1, 2>>, <<1, 3>>, <<1, 2, 1>> }

\* secret.encode(): two keys that differ in their one byte, and one that
\* differs from the first by a trailing zero byte.
SigSecrets == { <<5>>, <<6>>, <<5, 0>> }

\* Notification URLs: none, and two URLs.
SigUrls == { NoUrl, <<7>>, <<8>> }

\* How a sender renders its digest.
Renderings == {"hex", "HEX", "base64", "garbage"}

InvalidSig == <<"i", "n", "v">>

\* The signature a sender makes that signs msg under key.
Render(rendering, key, msg) ==
    CASE rendering = "hex" -> hexdigest(HmacSha256(key, msg))
      [] rendering = "HEX" -> upper(hexdigest(HmacSha256(key, msg)))
      [] rendering = "base64" -> b64encode(HmacSha256(key, msg))
      [] rendering = "garbage" -> InvalidSig

\* What the sender signed: its key, its body, the URL it put before the body.
Signed ==
    [key : SigSecrets, payload : SigPayloads, url : SigUrls, rendering : Renderings]

SignatureInit ==
    /\ sigAdapter \in SignatureAdapters
    /\ sigPayload \in SigPayloads
    /\ sigSecret \in SigSecrets
    /\ sigUrl \in SigUrls
    /\ signedBy \in Signed
    /\ sigSignature = Render(signedBy.rendering, signedBy.key,
                             signedBy.url \o signedBy.payload)
    /\ (sigAdapter # "square" => sigUrl = NoUrl /\ signedBy.url = NoUrl)
    /\ verified = "not called"

SignaturesAtRest ==
    /\ sigAdapter = "mock"
    /\ sigPayload = <<>>
    /\ sigSecret = <<>>
    /\ sigUrl = NoUrl
    /\ signedBy = [key |-> <<>>, payload |-> <<>>, url |-> NoUrl, rendering |-> "garbage"]
    /\ sigSignature = <<>>
    /\ verified = "not called"

\* adapter.verify_webhook_signature(payload, signature, secret[, notification_url])
VerifyWebhookSignature ==
    /\ verified = "not called"
    /\ sigSignature # <<>>
    /\ verified' =
         IF verify_webhook_signature_of(sigAdapter, sigPayload, sigSignature,
                                        sigSecret, sigUrl)
         THEN "True" ELSE "False"
    /\ UNCHANGED <<sigAdapter, sigPayload, sigSecret, sigUrl, signedBy, sigSignature>>

SignatureNext == VerifyWebhookSignature

\* ---------------------------------------------------------------------------
\* Overlapping compensations of one order (CompensationSpec): callers of
\* compensate_failed_order and of handle_pos_submission_failure with
\* auto_refund=True, each working on the Order object it loaded
\* ---------------------------------------------------------------------------

Compensators == {"c1", "c2"}
CompensationOps == {"compensate_failed_order", "handle_pos_submission_failure"}

\* The calls made in a run.
MaxCompensations == 3

\* The order a failed submission left behind: not submitted, paid or not.
CompensationOrders ==
    { o \in InitOrders :
        /\ o.external_id = NoId
        /\ o.confirmation_code = "OURS"
        /\ o.status \in {"confirmed", "pos_failed"}
        /\ o.payment_status \in {"pending", "captured", "succeeded"} }

\* No transaction holds the row lock of the order.
Unlocked == ""

CompensationAtRest ==
    /\ cpc = [c \in Compensators |-> "idle"]
    /\ cop = [c \in Compensators |-> ""]
    /\ loaded = [c \in Compensators |-> CHOOSE o \in CompensationOrders : TRUE]
    /\ rowLock = Unlocked
    /\ ncomp = 0
    /\ nRefunded = 0

CompensationInit ==
    /\ order \in CompensationOrders
    /\ profile = NoProfile
    /\ hasCreds = FALSE
    /\ now = 1
    /\ posOrders = 0
    /\ refunds = <<>>
    /\ last = Call("none", 0, -1, FALSE, order, NoCall)
    /\ attempts = 0
    /\ nextRc = -1
    /\ cpc = [c \in Compensators |-> "idle"]
    /\ cop = [c \in Compensators |-> ""]
    /\ loaded = [c \in Compensators |-> order]
    /\ rowLock = Unlocked
    /\ ncomp = 0
    /\ nRefunded = 0

\* Where a call goes when it has nothing more to refund or save.
CompDone(c) == IF cop[c] = "handle_pos_submission_failure" THEN "commit" ELSE "idle"

\* Order.objects.get(pk=order_id) of handle_pos_submission_failure, or the
\* load by which the caller of compensate_failed_order got its Order object:
\* a plain read, no lock.
\* What no compensation touches: the tenant, the POS and the call records.
orderRest == <<profile, hasCreds, now, posOrders, last, attempts, nextRc>>

CompLoad(c, op) ==
    /\ cpc[c] = "idle"
    /\ ncomp < MaxCompensations
    /\ ncomp' = ncomp + 1
    /\ cop' = [cop EXCEPT ![c] = op]
    /\ loaded' = [loaded EXCEPT ![c] = order]
    /\ cpc' = [cpc EXCEPT ![c] =
                 IF op = "handle_pos_submission_failure" THEN "mark" ELSE "check"]
    /\ UNCHANGED <<order, refunds, rowLock, nRefunded, orderRest>>

\* handle_pos_submission_failure enters its transaction and saves status
\* pos_failed: the UPDATE waits for the row lock and holds it to the commit.
\* auto_refund is True: with a payment intent the compensation follows.
CompMark(c) ==
    /\ cpc[c] = "mark"
    /\ rowLock = Unlocked
    /\ rowLock' = c
    /\ loaded' = [loaded EXCEPT ![c].status = "pos_failed"]
    /\ cpc' = [cpc EXCEPT ![c] =
                 IF loaded[c].stripe_payment_intent_id # "" THEN "check" ELSE "commit"]
    /\ UNCHANGED <<order, refunds, cop, ncomp, nRefunded, orderRest>>

\* compensate_failed_order tests the payment status and the payment intent of
\* the object it was given.
CompCheck(c) ==
    /\ cpc[c] = "check"
    /\ cpc' = [cpc EXCEPT ![c] =
                 IF loaded[c].payment_status \in Refundable
                    /\ loaded[c].stripe_payment_intent_id # ""
                 THEN "refund" ELSE CompDone(c)]
    /\ UNCHANGED <<order, refunds, cop, loaded, rowLock, ncomp, nRefunded, orderRest>>

\* create_refund(order.stripe_payment_intent_id): the payment service refunds
\* (ok) or the call raises PaymentError, which is logged.
CompRefund(c, ok) ==
    /\ cpc[c] = "refund"
    /\ refunds' = Append(refunds, loaded[c].stripe_payment_intent_id)
    /\ nRefunded' = nRefunded + (IF ok THEN 1 ELSE 0)
    /\ IF ok
       THEN /\ loaded' = [loaded EXCEPT ![c].payment_status = "refunded",
                                        ![c].status = "cancelled"]
            /\ cpc' = [cpc EXCEPT ![c] = "save"]
       ELSE /\ loaded' = loaded
            /\ cpc' = [cpc EXCEPT ![c] = CompDone(c)]
    /\ UNCHANGED <<order, cop, rowLock, ncomp, orderRest>>

\* order.save(update_fields=["payment_status", "status"]) after the refund.
\* Outside a transaction the UPDATE waits for the row lock and commits at
\* once; inside handle_pos_submission_failure it is committed with the block.
CompSave(c) ==
    /\ cpc[c] = "save"
    /\ IF cop[c] = "handle_pos_submission_failure"
       THEN /\ cpc' = [cpc EXCEPT ![c] = "commit_refunded"]
            /\ order' = order
       ELSE /\ rowLock = Unlocked
            /\ cpc' = [cpc EXCEPT ![c] = "idle"]
            /\ order' = [order EXCEPT !.payment_status = loaded[c].payment_status,
                                      !.status = loaded[c].status]
    /\ UNCHANGED <<refunds, cop, loaded, rowLock, ncomp, nRefunded, orderRest>>

\* The atomic block of handle_pos_submission_failure is left: its saves are
\* committed and the row lock is released.
CompCommit(c) ==
    /\ cpc[c] \in {"commit", "commit_refunded"}
    /\ rowLock = c
    /\ rowLock' = Unlocked
    /\ order' = IF cpc[c] = "commit_refunded"
                THEN [order EXCEPT !.payment_status = loaded[c].payment_status,
                                   !.status = loaded[c].status]
                ELSE [order EXCEPT !.status = loaded[c].status]
    /\ cpc' = [cpc EXCEPT ![c] = "idle"]
    /\ UNCHANGED <<refunds, cop, loaded, ncomp, nRefunded, orderRest>>

CompensationNext ==
    \/ \E c \in Compensators, op \in CompensationOps : CompLoad(c, op)
    \/ \E c \in Compensators : CompMark(c)
    \/ \E c \in Compensators : CompCheck(c)
    \/ \E c \in Compensators, ok \in BOOLEAN : CompRefund(c, ok)
    \/ \E c \in Compensators : CompSave(c)
    \/ \E c \in Compensators : CompCommit(c)

\* ---------------------------------------------------------------------------
\* The two confirmation paths of an order (ConfirmSpec): the confirm_order
\* endpoint and the handler of Stripe's payment_intent.succeeded event
\* ---------------------------------------------------------------------------

\* Requests to the endpoint and deliveries of the event are counted up to
\* these numbers; more may follow.
MaxConfirmRequests == 2
MaxStripeEvents == 2

\* payment_intent_id of a confirm request: the order's, or another one.
ConfirmIntents == {"pi_1", "pi_2"}

\* metadata.order_id of an event: the order's id, or none.
EventOrderIds == {ExistingOrder, 0}

\* The minutes of the default estimate both paths store.
DefaultEstimate == 30

\* The order as create_order left it: pending, with its payment intent.
ConfirmOrders ==
    { o \in InitOrders :
        /\ o.status = "pending"
        /\ o.payment_status = "pending"
        /\ o.external_id = NoId
        /\ o.stripe_payment_intent_id = "pi_1"
        /\ o.confirmation_code = "OURS" }

\* The tenants of the confirmation model: without a profile, or with a POS.
ConfirmProfiles ==
    { NoProfile,
      [exists |-> TRUE, pos_provider |-> "toast", pos_location_id |-> "loc-1"] }

ConfirmAtRest ==
    /\ epc = "idle"
    /\ epIntent = ""
    /\ epStatus = 0
    /\ nConfirm = 0
    /\ hpc = "idle"
    /\ nEvents = 0
    /\ invoked = 0

ConfirmInit ==
    /\ order \in ConfirmOrders
    /\ profile \in ConfirmProfiles
    /\ hasCreds \in BOOLEAN
    /\ (hasCreds => has_pos(profile))
    /\ now = 1
    /\ posOrders = 0
    /\ refunds = <<>>
    /\ last = Call("none", 0, -1, FALSE, order, NoCall)
    /\ attempts = 0
    /\ nextRc = -1
    /\ ConfirmAtRest

\* What the save of either path writes: status, payment_status,
\* estimated_ready_time (confirmed_at is not part of the model's order).
Confirmed(o) ==
    [o EXCEPT !.status = "confirmed", !.payment_status = "captured",
              !.estimated_ready_time = DefaultEstimate]

orderBookkeeping == <<profile, hasCreds, now, posOrders, refunds, last, attempts, nextRc>>

\* confirm_order: the order is loaded (404 when there is none) and its status
\* is tested (400 unless pending).
ConfirmLoad(oid, intent) ==
    /\ epc \in {"idle", "done"}
    /\ nConfirm' = Min(nConfirm + 1, MaxConfirmRequests)
    /\ epIntent' = intent
    /\ IF oid # ExistingOrder
       THEN epc' = "done" /\ epStatus' = 404
       ELSE IF order.status # "pending"
       THEN epc' = "done" /\ epStatus' = 400
       ELSE epc' = "verify" /\ epStatus' = 0
    /\ UNCHANGED <<order, orderBookkeeping, hpc, nEvents, invoked>>

\* confirm_order: verify_payment_intent asks Stripe (paid or not), then the
\* intent is compared with the order's; 400 on either failure.
ConfirmVerify(paid) ==
    /\ epc = "verify"
    /\ IF paid /\ order.stripe_payment_intent_id = epIntent
       THEN epc' = "save" /\ epStatus' = 0
       ELSE epc' = "done" /\ epStatus' = 400
    /\ UNCHANGED <<order, orderBookkeeping, epIntent, nConfirm, hpc, nEvents, invoked>>

\* confirm_order: order.save(update_fields=[status, payment_status, ...]).
ConfirmSave ==
    /\ epc = "save"
    /\ order' = Confirmed(order)
    /\ epc' = "submit"
    /\ UNCHANGED <<orderBookkeeping, epIntent, epStatus, nConfirm, hpc, nEvents, invoked>>

\* confirm_order: submit_order_to_pos_task(order.pk), then the response.
ConfirmSubmit ==
    /\ epc = "submit"
    /\ SubmitOrderToPosTask(ExistingOrder, 0)
    /\ invoked' = invoked + 1
    /\ epc' = "done"
    /\ epStatus' = 200
    /\ UNCHANGED <<epIntent, nConfirm, hpc, nEvents>>

\* _handle_payment_succeeded: the order named by the metadata is loaded; the
\* handler returns when there is none or when its status is not pending.
PaymentSucceededLoad(order_id) ==
    /\ hpc \in {"idle", "done"}
    /\ nEvents' = Min(nEvents + 1, MaxStripeEvents)
    /\ hpc' = IF order_id = ExistingOrder /\ order.status = "pending"
              THEN "save" ELSE "done"
    /\ UNCHANGED <<order, orderBookkeeping, epc, epIntent, epStatus, nConfirm, invoked>>

\* _handle_payment_succeeded: order.save(update_fields=[...]) and the log
\* line; the handler returns.
PaymentSucceededSave ==
    /\ hpc = "save"
    /\ order' = Confirmed(order)
    /\ hpc' = "done"
    /\ UNCHANGED <<orderBookkeeping, epc, epIntent, epStatus, nConfirm, nEvents, invoked>>

ConfirmNext ==
    \/ \E oid \in OrderIds, intent \in ConfirmIntents : ConfirmLoad(oid, intent)
    \/ \E paid \in BOOLEAN : ConfirmVerify(paid)
    \/ ConfirmSave
    \/ ConfirmSubmit
    \/ \E order_id \in EventOrderIds : PaymentSucceededLoad(order_id)
    \/ PaymentSucceededSave

AdaptersAtRest == RequestsAtRest /\ LimiterInit /\ MockAtRest /\ SignaturesAtRest

Init ==
    /\ OrderInit
    /\ WebhooksAtRest /\ SubmittersAtRest /\ CompensationAtRest /\ ConfirmAtRest
    /\ AdaptersAtRest
Next ==
    /\ OrderNext
    /\ UNCHANGED <<webhookVars, submitVars, compensationVars, confirmVars, adapterVars>>
Spec == Init /\ [][Next]_vars

WebhookSpecInit ==
    /\ WebhookInit
    /\ OrderAtRest /\ SubmittersAtRest /\ CompensationAtRest /\ ConfirmAtRest
    /\ AdaptersAtRest
WebhookSpecNext ==
    /\ WebhookNext
    /\ UNCHANGED <<orderVars, submitVars, compensationVars, confirmVars, adapterVars>>
WebhookSpec == WebhookSpecInit /\ [][WebhookSpecNext]_vars

ConcurrentSubmitInit ==
    /\ OrderInit
    /\ order \in ConcurrentSubmitOrders
    /\ WebhooksAtRest
    /\ SubmittersAtRest
    /\ CompensationAtRest /\ ConfirmAtRest
    /\ AdaptersAtRest
ConcurrentSubmitSpecNext ==
    /\ ConcurrentSubmitNext
    /\ UNCHANGED <<refunds, last, attempts, nextRc, webhookVars, compensationVars,
                   confirmVars, adapterVars>>
ConcurrentSubmitSpec == ConcurrentSubmitInit /\ [][ConcurrentSubmitSpecNext]_vars

RequestSpecInit ==
    /\ RequestInit
    /\ LimiterInit /\ MockAtRest /\ SignaturesAtRest
    /\ OrderAtRest /\ WebhooksAtRest /\ SubmittersAtRest /\ CompensationAtRest /\ ConfirmAtRest
RequestSpecNext ==
    /\ RequestNext
    /\ UNCHANGED <<orderVars, webhookVars, submitVars, compensationVars, confirmVars,
                   limiterVars, mockVars, signatureVars>>
RequestSpec == RequestSpecInit /\ [][RequestSpecNext]_vars

LimiterSpecInit ==
    /\ LimiterInit
    /\ RequestsAtRest /\ MockAtRest /\ SignaturesAtRest
    /\ OrderAtRest /\ WebhooksAtRest /\ SubmittersAtRest /\ CompensationAtRest /\ ConfirmAtRest
LimiterSpecNext ==
    /\ LimiterNext
    /\ UNCHANGED <<orderVars, webhookVars, submitVars, compensationVars, confirmVars,
                   requestVars, mockVars, signatureVars>>
LimiterSpec == LimiterSpecInit /\ [][LimiterSpecNext]_vars

MockSpecInit ==
    /\ MockInit
    /\ RequestsAtRest /\ LimiterInit /\ SignaturesAtRest
    /\ OrderAtRest /\ WebhooksAtRest /\ SubmittersAtRest /\ CompensationAtRest /\ ConfirmAtRest
MockSpecNext ==
    /\ MockNext
    /\ UNCHANGED <<orderVars, webhookVars, submitVars, compensationVars, confirmVars,
                   requestVars, limiterVars, signatureVars>>
MockSpec == MockSpecInit /\ [][MockSpecNext]_vars

SignatureSpecInit ==
    /\ SignatureInit
    /\ RequestsAtRest /\ LimiterInit /\ MockAtRest
    /\ OrderAtRest /\ WebhooksAtRest /\ SubmittersAtRest /\ CompensationAtRest /\ ConfirmAtRest
SignatureSpecNext ==
    /\ SignatureNext
    /\ UNCHANGED <<orderVars, webhookVars, submitVars, compensationVars, confirmVars,
                   requestVars, limiterVars, mockVars>>
SignatureSpec == SignatureSpecInit /\ [][SignatureSpecNext]_vars

CompensationSpecInit ==
    /\ CompensationInit
    /\ WebhooksAtRest /\ SubmittersAtRest /\ ConfirmAtRest /\ AdaptersAtRest
CompensationSpecNext ==
    /\ CompensationNext
    /\ UNCHANGED <<webhookVars, submitVars, confirmVars, adapterVars>>
CompensationSpec == CompensationSpecInit /\ [][CompensationSpecNext]_vars

ConfirmSpecInit ==
    /\ ConfirmInit
    /\ WebhooksAtRest /\ SubmittersAtRest /\ CompensationAtRest /\ AdaptersAtRest

\* A step of the confirmation paths in the whole state.
ConfirmStep(A) ==
    A /\ UNCHANGED <<webhookVars, submitVars, compensationVars, adapterVars>>

ConfirmSpecNext == ConfirmStep(ConfirmNext)

\* A handler that has begun runs to its end: every step of a request in
\* progress is taken. The client of the order goes on asking the endpoint to
\* confirm it, and Stripe goes on delivering the event.
ConfirmFairness ==
    /\ WF_vars(ConfirmStep(\E paid \in BOOLEAN : ConfirmVerify(paid)))
    /\ WF_vars(ConfirmStep(ConfirmSave))
    /\ WF_vars(ConfirmStep(ConfirmSubmit))
    /\ WF_vars(ConfirmStep(PaymentSucceededSave))
    /\ WF_vars(ConfirmStep(\E intent \in ConfirmIntents :
                             ConfirmLoad(ExistingOrder, intent)))
    /\ WF_vars(ConfirmStep(PaymentSucceededLoad(ExistingOrder)))

ConfirmSpec == ConfirmSpecInit /\ [][ConfirmSpecNext]_vars /\ ConfirmFairness


\* ---------------------------------------------------------------------------
\* Properties of webhook processing (WebhookSpec)
\* ---------------------------------------------------------------------------

\* The tables the event handlers write.
handlerRows == <<menuItems, modifiers, posOrderRow>>

\* C1: a process_webhook call on a record that an earlier call has already
\* taken out of "pending" changes nothing: when the call leaves its
\* transaction, no MenuItem, Modifier or Order row and no field of any webhook
\* record (status, processed_at, error) has been written, and no handler ran.
C1_SecondCallIsNoOp ==
    [][\A p \in Workers :
         (pc[p] = "locked" /\ pc'[p] # "locked" /\ webhooks[cur[p]].status # "pending")
         => /\ webhooks' = webhooks
            /\ handlerRows' = handlerRows
            /\ applied' = applied
            /\ saves' = saves]_vars

\* A record that one call processed and a later call, started after the first
\* was over, skipped.
C1_Witness ==
    \E w \in WebhookIds :
      /\ saves[w] = 1
      /\ skips[w] >= 1
      /\ ~overlapped[w]
      /\ webhooks[w].status \in {"processed", "failed"}

\* C2: whatever the interleaving of the calls for one record, its handler is
\* applied at most once and exactly one call performs the transition out of
\* "pending"; a call that holds the row lock after that transition has read a
\* non-pending status.
C2_AtMostOnce ==
    /\ \A w \in WebhookIds :
         /\ applied[w] <= 1
         /\ saves[w] <= 1
         /\ applied[w] <= saves[w]
         /\ (webhooks[w].status \in {"processed", "failed"} <=> saves[w] = 1)
    /\ \A p \in Workers :
         (pc[p] = "locked" /\ saves[cur[p]] >= 1) => row[p].status # "pending"

\* Two overlapping calls for one pending record, both over: one applied the
\* handler and saved, the other skipped.
C2_Witness ==
    \E w \in WebhookIds :
      /\ overlapped[w]
      /\ applied[w] = 1
      /\ saves[w] = 1
      /\ skips[w] = 1
      /\ \A p \in Workers : pc[p] = "idle"

\* C3: a webhook record's status is always one of pending, processed, failed,
\* skipped; a step changes a status only from pending to processed or from
\* pending to failed, and leaves every field of a record that is processed,
\* failed or skipped as it was.
C3_StatusMachine ==
    /\ [](\A w \in WebhookIds : webhooks[w].status \in WebhookStatus)
    /\ [][\A w \in WebhookIds :
            /\ (webhooks'[w].status # webhooks[w].status
                  => /\ webhooks[w].status = "pending"
                     /\ webhooks'[w].status \in {"processed", "failed"})
            /\ (webhooks[w].status # "pending" => webhooks'[w] = webhooks[w])]_vars

\* One record went from pending to processed, the other from pending to
\* failed.
C3_Witness ==
    \E v, w \in WebhookIds :
      /\ saves[v] = 1 /\ webhooks[v].status = "processed"
      /\ saves[w] = 1 /\ webhooks[w].status = "failed"


\* ---------------------------------------------------------------------------
\* Properties of order submission (Spec)
\* ---------------------------------------------------------------------------

\* The last call was op on the stored order.
LastWas(op) == last.op = op /\ last.oid = ExistingOrder

\* C4: submit_order_to_pos on an order that already has an external id returns
\* the stored external id and confirmation code, calls neither authenticate
\* nor create_order, and leaves the order row as it was; so over any sequence
\* of calls the POS holds at most one order for it.
C4_AlreadySubmittedNoOp ==
    /\ (LastWas("submit_order_to_pos") /\ last.pre.external_id # NoId)
         => /\ ~last.raised
            /\ last.external_id = last.pre.external_id
            /\ last.confirmation_code = last.pre.confirmation_code
            /\ last.nAuth = 0
            /\ last.nCreate = 0
            /\ order = last.pre
    /\ posOrders <= 1

\* An order submitted in this run (the POS clock moved) and submitted again.
C4_Witness ==
    /\ LastWas("submit_order_to_pos")
    /\ last.pre.external_id # NoId
    /\ now = 2
    /\ posOrders = 1

\* C5: when submit_order_to_pos_task fails an order permanently, an order whose
\* payment is captured and that has a payment-intent id gets a refund issued.
C5_PermanentFailureRefunds ==
    (/\ LastWas("submit_order_to_pos_task")
     /\ last.status = "pos_failed"
     /\ last.pre.payment_status = "captured"
     /\ last.pre.stripe_payment_intent_id # "")
    => /\ order.status \in {"pos_failed", "cancelled"}
       /\ last.calls = <<last.pre.stripe_payment_intent_id>>

\* C6: compensate_failed_order on a captured order with a payment-intent id
\* calls create_refund exactly once, with that id; when the refund succeeds the
\* order is refunded and cancelled and the function returns True.
C6_RefundsCapturedOrder ==
    (/\ LastWas("compensate_failed_order")
     /\ last.pre.payment_status = "captured"
     /\ last.pre.stripe_payment_intent_id # "")
    => /\ last.calls = <<last.pre.stripe_payment_intent_id>>
       /\ last.refund_ok
            => /\ order.payment_status = "refunded"
               /\ order.status = "cancelled"
               /\ last.returned

\* A failed, captured order was refunded and cancelled.
C6_Witness ==
    /\ LastWas("compensate_failed_order")
    /\ last.pre.status = "pos_failed"
    /\ last.pre.payment_status = "captured"
    /\ last.refund_ok
    /\ order.payment_status = "refunded"
    /\ refunds # <<>>

\* The outcome of compensate_failed_order when it declines to refund.
NoRefundIssued == ~last.returned /\ last.calls = <<>> /\ order = last.pre

C8_RefundFailureKeepsOrder ==
    (/\ LastWas("compensate_failed_order")
     /\ last.calls # <<>>
     /\ ~last.refund_ok)
    => /\ ~last.returned
       /\ order = last.pre

\* The refund of a failed, captured order failed.
C8_Witness ==
    /\ LastWas("compensate_failed_order")
    /\ last.calls # <<>>
    /\ ~last.refund_ok
    /\ order.status = "pos_failed"
    /\ order.payment_status = "captured"

\* The last call was attempt number `attempts` of a chain of task calls with
\* retry_count 0, 1, 2, ... in turn, and it failed with a retryable error as
\* all before it did.
InRetryChain ==
    /\ LastWas("submit_order_to_pos_task")
    /\ attempts > 0
    /\ last.raised
    /\ last.err_retryable

\* C9 as the specification states it: in such a chain the order is marked
\* permanently failed after at most 3 attempts.
C9_FailedWithinThree ==
    InRetryChain =>
      /\ attempts <= 3
      /\ (attempts = 3 => order.status = "pos_failed")

\* C9, amended: in such a chain the order is marked permanently failed by
\* attempt MAX_RETRIES + 1 = 4, the call with retry_count = 3, and by no
\* earlier attempt.
C9_FailedOnFourth ==
    InRetryChain =>
      /\ attempts = last.rc + 1
      /\ attempts <= MAX_RETRIES + 1
      /\ (attempts = MAX_RETRIES + 1 <=> last.status = "pos_failed")
      /\ (attempts = MAX_RETRIES + 1 <=> order.status = "pos_failed")

\* The fourth attempt of a chain has marked the order failed.
C9_Witness ==
    /\ InRetryChain
    /\ attempts = 4
    /\ last.status = "pos_failed"
    /\ order.status = "pos_failed"

\* The delay the schedule gives for a retry_count.
Schedule(rc) == IF rc = 0 THEN 60 ELSE IF rc = 1 THEN 120 ELSE 300

\* C10: on a retryable error with retry_count < 3 the task returns a
\* pending-retry result (success false, is_retryable true, the same
\* retry_count) with next_retry_delay 60, 120, 300 for retry_count 0, 1, 2, and
\* leaves the order row as it was, not pos_failed; the delay table is clamped
\* to 300 beyond its end.
C10_PendingRetry ==
    /\ (/\ LastWas("submit_order_to_pos_task")
        /\ last.raised
        /\ last.err_retryable
        /\ last.rc < 3)
       => /\ ~last.success
          /\ last.is_retryable
          /\ last.retry_count = last.rc
          /\ last.next_retry_delay = Schedule(last.rc)
          /\ last.status = ""
          /\ order = last.pre
          /\ order.status # "pos_failed"
    /\ \A rc \in 0..(MaxRetryCount + 2) : RetryDelay(rc) = Schedule(rc)

\* A third attempt came back pending, to be retried in 300 seconds.
C10_Witness ==
    /\ LastWas("submit_order_to_pos_task")
    /\ last.rc = 2
    /\ last.is_retryable
    /\ last.next_retry_delay = 300
    /\ order.status \in {"pending", "confirmed"}

\* C11: when submit_order_to_pos raises an OrderSubmissionError that is not
\* retryable, or retryable with retry_count >= 3, submit_order_to_pos_task
\* leaves the order with status pos_failed (nothing else of it changed) and
\* returns success false, is_retryable false, status "pos_failed". For an id
\* no order has, there is no order to mark.
C11_PermanentFailureResult ==
    (/\ last.op = "submit_order_to_pos_task"
     /\ last.raised
     /\ (~last.err_retryable \/ last.rc >= 3))
    => /\ ~last.success
       /\ ~last.is_retryable
       /\ last.status = "pos_failed"
       /\ last.retry_count = -1
       /\ order = IF last.oid = ExistingOrder
                  THEN [last.pre EXCEPT !.status = "pos_failed"]
                  ELSE last.pre

\* A retryable error at retry_count 3 marked a confirmed order pos_failed.
C11_Witness ==
    /\ LastWas("submit_order_to_pos_task")
    /\ last.raised
    /\ last.err_retryable
    /\ last.rc = 3
    /\ last.pre.status = "confirmed"
    /\ order.status = "pos_failed"

\* C12: retry_failed_order on an order whose status is pos_failed resets the
\* status to confirmed and runs submit_order_to_pos_task with retry_count 0
\* (one submission, and a failure comes back pending with retry_count 0 and
\* the first delay); for an order in another status, or an id no order has, it
\* returns success false, makes no submission and leaves the order as it was.
C12_RetryOnlyPosFailed ==
    last.op = "retry_failed_order" =>
      IF last.oid = ExistingOrder /\ last.pre.status = "pos_failed"
      THEN /\ last.submits = 1
           /\ last.success \/ last.raised
           /\ last.success => order.status = "confirmed"
           /\ last.raised
                => /\ last.is_retryable
                   /\ last.retry_count = 0
                   /\ last.next_retry_delay = 60
                   /\ order = [last.pre EXCEPT !.status = "confirmed"]
      ELSE /\ ~last.success
           /\ last.submits = 0
           /\ last.nAuth = 0
           /\ last.nCreate = 0
           /\ order = last.pre

\* A pos_failed order was retried, failed again at the POS and is pending its
\* first retry.
C12_Witness ==
    /\ LastWas("retry_failed_order")
    /\ last.pre.status = "pos_failed"
    /\ last.nCreate = 1
    /\ last.is_retryable
    /\ last.retry_count = 0
    /\ order.status = "confirmed"

\* C13: submit_order_to_pos on an id no order has, or on an order without
\* external id whose status is neither confirmed nor pending, raises
\* OrderSubmissionError with is_retryable false, having called no adapter and
\* written nothing.
C13_FailsFast ==
    (/\ last.op = "submit_order_to_pos"
     /\ \/ last.oid = MissingOrder
        \/ /\ last.pre.external_id = NoId
           /\ last.pre.status \notin {"confirmed", "pending"})
    => /\ last.raised
       /\ last.exc = "OrderSubmissionError"
       /\ ~last.err_retryable
       /\ last.nAuth = 0
       /\ last.nCreate = 0
       /\ order = last.pre

\* A pos_failed order of a tenant with a POS was refused.
C13_Witness ==
    /\ LastWas("submit_order_to_pos")
    /\ last.pre.external_id = NoId
    /\ last.pre.status = "pos_failed"
    /\ profile.pos_location_id # ""
    /\ last.raised

\* C14: for an order that is ready for submission (no external id, status
\* confirmed or pending) of a tenant without a restaurant profile, or with a
\* profile that lacks the POS provider or the location, submit_order_to_pos
\* sets the status to confirmed and changes nothing else, returns external_id
\* None with the order's confirmation code, and calls no adapter.
C14_NoPosConfirmsLocally ==
    (/\ LastWas("submit_order_to_pos")
     /\ last.pre.external_id = NoId
     /\ last.pre.status \in {"confirmed", "pending"}
     /\ \/ ~profile.exists
        \/ profile.pos_provider = ""
        \/ profile.pos_location_id = "")
    => /\ last.exc = ""
       /\ order = [last.pre EXCEPT !.status = "confirmed"]
       /\ order.external_id = NoId
       /\ last.external_id = NoId
       /\ last.confirmation_code = last.pre.confirmation_code
       /\ last.nAuth = 0
       /\ last.nCreate = 0

\* A pending order of a tenant whose profile names a provider but no location
\* was confirmed locally.
C14_Witness ==
    /\ LastWas("submit_order_to_pos")
    /\ profile.exists
    /\ profile.pos_provider = "toast"
    /\ profile.pos_location_id = ""
    /\ last.pre.status = "pending"
    /\ order.status = "confirmed"
    /\ order.external_id = NoId

\* C16: whenever the adapter's create_order fails, submit_order_to_pos raises
\* OrderSubmissionError and the order row is what it was: external_id empty,
\* status, submitted_at and confirmation_code unchanged.
C16_CreateFailureKeepsOrder ==
    (/\ LastWas("submit_order_to_pos")
     /\ last.nCreate = 1
     /\ ~last.created)
    => /\ last.raised
       /\ last.exc = "OrderSubmissionError"
       /\ order.external_id = NoId
       /\ order = last.pre

\* The POS refused a pending order that has our confirmation code.
C16_Witness ==
    /\ LastWas("submit_order_to_pos")
    /\ last.nCreate = 1
    /\ ~last.created
    /\ last.raised
    /\ last.pre.status = "pending"
    /\ last.pre.confirmation_code = "OURS"

\* C17 as the specification states it: no error but OrderSubmissionError
\* leaves submit_order_to_pos, and every adapter error, an auth error
\* included, is mapped to an OrderSubmissionError.
C17_EveryAdapterErrorMapped ==
    last.op = "submit_order_to_pos" =>
      /\ last.exc \in {"", "OrderSubmissionError"}
      /\ (last.auth_error \/ (last.nCreate = 1 /\ ~last.created)) => last.raised

\* C17, amended: no adapter error leaves submit_order_to_pos as anything but
\* OrderSubmissionError; an error of create_order (API, rate-limit or order
\* error) is mapped to a retryable OrderSubmissionError; an auth error of
\* authenticate is caught and not mapped: the call goes on to create_order
\* and its outcome is create_order's.
C17_CreateErrorsMappedAuthErrorsIgnored ==
    last.op = "submit_order_to_pos" =>
      /\ last.exc \in {"", "OrderSubmissionError"}
      /\ (last.nCreate = 1 /\ ~last.created) => (last.raised /\ last.err_retryable)
      /\ last.auth_error
           => /\ last.nAuth = 1
              /\ last.nCreate = 1
              /\ last.raised <=> ~last.created
              /\ last.created => order.external_id = last.external_id

\* Toast refused the credentials and the order was submitted all the same.
C17_Witness ==
    /\ LastWas("submit_order_to_pos")
    /\ last.auth_error
    /\ last.created
    /\ ~last.raised
    /\ order.external_id # NoId
    /\ order.status = "confirmed"

\* ---------------------------------------------------------------------------
\* Properties of webhook processing (WebhookSpec), continued
\* ---------------------------------------------------------------------------

\* A secret is configured for the record's provider and the record carries a
\* signature that is not the HMAC of its payload.
BadSignature(r) == r.provider \in secrets /\ r.signature \notin {"", "hmac"}

\* C19: when a secret is configured for the provider of a pending record and
\* the record's signature does not verify, process_webhook runs neither
\* parse_webhook nor an event handler, stores status failed with the error
\* "Invalid webhook signature" and is about to raise POSWebhookError.
C19_BadSignatureFails ==
    [][\A p \in Workers :
         (/\ pc[p] = "locked"
          /\ pc'[p] # "locked"
          /\ row[p].status = "pending"
          /\ BadSignature(row[p]))
         => /\ webhooks'[cur[p]].status = "failed"
            /\ webhooks'[cur[p]].error = "Invalid webhook signature"
            /\ handlerRows' = handlerRows
            /\ applied' = applied
            /\ parses' = parses
            /\ pc'[p] = "raise"
            /\ raising'[p] = "POSWebhookError"]_vars

\* A forged delivery is stored as failed, unparsed, and its caller is about to
\* get the POSWebhookError.
C19_Witness ==
    \E p \in Workers :
      /\ pc[p] = "raise"
      /\ raising[p] = "POSWebhookError"
      /\ webhooks[cur[p]].signature = "forged"
      /\ webhooks[cur[p]].status = "failed"
      /\ webhooks[cur[p]].error = "Invalid webhook signature"
      /\ parses[cur[p]] = 0
      /\ applied[cur[p]] = 0

\* C20: whenever a process_webhook call is about to raise to its caller, the
\* record is stored as failed with the error message; handing the exception
\* to the caller changes no row, so the caller sees failed, never pending.
C20_FailedBeforeRaise ==
    /\ [](\A p \in Workers :
            pc[p] = "raise"
            => /\ raising[p] # ""
               /\ webhooks[cur[p]].status = "failed"
               /\ webhooks[cur[p]].error # ""
               /\ webhooks[cur[p]].processed_at # Null)
    /\ [][\A p \in Workers :
            (pc[p] = "raise" /\ pc'[p] # "raise")
            => /\ webhooks' = webhooks
               /\ webhooks'[cur[p]].status = "failed"]_vars

\* A record that could not be parsed is stored as failed while its caller has
\* yet to get the exception.
C20_Witness ==
    \E p \in Workers :
      /\ pc[p] = "raise"
      /\ webhooks[cur[p]].status = "failed"
      /\ webhooks[cur[p]].error = "Unknown event type"
      /\ parses[cur[p]] = 1

\* ---------------------------------------------------------------------------
\* Properties of concurrent submission (ConcurrentSubmitSpec)
\* ---------------------------------------------------------------------------

\* Caller p leaves position at in this step.
Leaves(p, at) == spc[p] = at /\ spc'[p] # at

\* C15: the POS response is persisted as one update. No stored order has an
\* external id without submitted_at; a step that writes the external id
\* writes status confirmed and submitted_at with it; and the save of a POS
\* response stores the POS's ready time and its confirmation code, the code
\* only when the order, as the call loaded it, had none.
C15_PosResponseSavedAtOnce ==
    /\ [](order.external_id # NoId => order.submitted_at # Null)
    /\ [][order'.external_id # order.external_id
            => /\ order'.external_id # NoId
               /\ order'.status = "confirmed"
               /\ order'.submitted_at = now]_vars
    /\ [][\A p \in Workers :
            Leaves(p, "created")
            => /\ order'.external_id = resp[p].external_id
               /\ order'.estimated_ready_time = resp[p].estimated_ready_time
               /\ order'.confirmation_code =
                    IF held[p].confirmation_code = ""
                    THEN resp[p].confirmation_code
                    ELSE held[p].confirmation_code]_vars

\* A POS order was saved for an order that had its own confirmation code,
\* which it kept.
C15_Witness ==
    /\ writes # <<>>
    /\ order.external_id # NoId
    /\ order.status = "confirmed"
    /\ order.submitted_at > 1
    /\ order.confirmation_code = "OURS"
    /\ \A p \in Workers : spc[p] = "idle"

\* The loaded instance passes every check before the POS call.
PassesChecks(o) ==
    /\ o.external_id = NoId
    /\ o.status \in {"confirmed", "pending"}
    /\ profile.exists
    /\ profile.pos_provider = "toast"
    /\ profile.pos_location_id # ""

\* C18: submission is not mutually exclusive. A call whose loaded instance has
\* no external id creates a POS order whatever the stored order has become
\* since the load, and its save overwrites the stored external id with its
\* own: every save is of the saver's POS order, the stored external id is that
\* of the latest save, and the POS holds one order per call that got through.
C18_DuplicateSubmissionRace ==
    /\ [][\A p \in Workers :
            (Leaves(p, "loaded") /\ PassesChecks(held[p]))
            => /\ spc'[p] = "created"
               /\ posOrders' = posOrders + 1
               /\ resp'[p].external_id = posOrders + 1]_vars
    /\ [][\A p \in Workers :
            Leaves(p, "created")
            => /\ order'.external_id = resp[p].external_id
               /\ writes' = Append(writes, resp[p].external_id)]_vars
    /\ [](writes # <<>> => order.external_id = writes[Len(writes)])

\* Two calls loaded the unsubmitted order before either saved: the POS holds
\* two orders for it, and the call that created the first saved last.
C18_Witness ==
    /\ posOrders = 2
    /\ writes = <<2, 1>>
    /\ order.external_id = 1
    /\ \A p \in Workers : spc[p] = "idle"


\* ---------------------------------------------------------------------------
\* C21: process_webhook verifies and parses each record with the adapter of
\* that record's own provider: whenever a worker holds the lock on a pending
\* record, the adapter get_adapter_for_provider resolves for it is that
\* provider's adapter (Toast for a Toast record, Clover for a Clover record,
\* Square for a Square record).
\* ---------------------------------------------------------------------------
C21_OwnProviderAdapter ==
    \A p \in Workers :
       pc[p] = "locked" /\ ~AlreadyProcessed(row[p])
          => get_adapter_for_provider(row[p].provider) = row[p].provider


\* ---------------------------------------------------------------------------
\* C22: in process_pending_webhooks a record whose processing raises does not
\* stop the batch. When a call of the batch raises, the exception is swallowed
\* and the loop goes on with the records still selected, its count unchanged;
\* and when the batch returns, every selected record has been attempted, no
\* exception is on its way to the caller, and the count returned is the number
\* of calls that returned without raising.
\* ---------------------------------------------------------------------------
C22_RaisingRecordDoesNotStopBatch ==
    [][\A p \in Workers :
         /\ (inBatch[p] /\ pc[p] = "raise" /\ pc'[p] # "raise")
               => /\ pc'[p] = "batch" /\ inBatch'[p]
                  /\ queue'[p] = queue[p]
                  /\ count'[p] = count[p]
                  /\ raising'[p] = ""
         /\ (inBatch[p] /\ ~inBatch'[p])
               => LET o == batch[p].outcomes
                  IN  /\ [i \in 1..Len(o) |-> o[i].id] = batch[p].selected
                      /\ count[p] = Cardinality({i \in 1..Len(o) : ~o[i].raised})
                      /\ raising[p] = ""]_vars

\* A batch whose first call raised and whose second call returned.
C22_Witness ==
    \E p \in Workers :
       /\ pc[p] = "batch" /\ queue[p] = <<>>
       /\ Len(batch[p].outcomes) = 2
       /\ batch[p].outcomes[1].raised
       /\ ~batch[p].outcomes[2].raised
       /\ count[p] = 1


\* ---------------------------------------------------------------------------
\* C23: process_pending_webhooks(limit) selects at most `limit` records, all
\* pending when selected, in ascending received_at order, and attempts them in
\* that order and no others; when the pending records were at most `limit`,
\* no record is pending when the batch returns.
\* ---------------------------------------------------------------------------
C23_BatchSelectsPendingInOrder ==
    [][\A p \in Workers :
         /\ \A limit \in 1..MaxLimit :
               StartBatch(p, limit) =>
                  LET q == queue'[p]
                  IN  /\ Len(q) <= limit
                      /\ \A i \in 1..Len(q) : webhooks[q[i]].status = "pending"
                      /\ \A i, j \in 1..Len(q) : i < j => q[i] < q[j]
                      /\ batch'[p].selected = q
         /\ inBatch[p] =>
               LET o == batch[p].outcomes
               IN  /\ Len(o) <= Len(batch[p].selected)
                   /\ \A i \in 1..Len(o) : o[i].id = batch[p].selected[i]
         /\ (inBatch[p] /\ ~inBatch'[p] /\ batch[p].complete)
               => \A w \in WebhookIds : webhooks[w].status # "pending"]_vars

\* A batch that selected both records, both pending, has attempted both.
C23_Witness ==
    \E p \in Workers :
       /\ pc[p] = "batch" /\ queue[p] = <<>>
       /\ batch[p].complete
       /\ batch[p].selected = <<1, 2>>
       /\ Len(batch[p].outcomes) = 2
       /\ \A w \in WebhookIds : webhooks[w].status # "pending"


\* ---------------------------------------------------------------------------
\* Properties of _request_with_retry (RequestSpec)
\* ---------------------------------------------------------------------------

\* A transient failure: a transport failure, or a status that is neither 2xx
\* nor 401 nor 429.
Transient(r) ==
    \/ r.kind = "RequestError"
    \/ r.kind = "response" /\ r.status \notin {401, 429} /\ ~is_success(r.status)

\* The answers before the i-th were all transient failures.
TransientBefore(i) == \A j \in 1..(i - 1) : Transient(sent[j])

\* C24: an HTTP 429 response inside _request_with_retry raises
\* POSRateLimitError whose retry_after equals the Retry-After header value (60
\* when the header is absent), after exactly one request for that call and
\* without any backoff sleep or further attempt.
C24_RateLimitSurfacesAfterOneRequest ==
    \A i \in 1..Len(sent) :
       sent[i].status = 429 =>
          /\ rpc = "raised"
          /\ outcome.exc = "POSRateLimitError"
          /\ outcome.retry_after = int(RetryAfterOr60(sent[i].retry_after)).value
          /\ Len(sent) = 1
          /\ slept = <<>>


\* C25 as stated: an HTTP 401 response inside _request_with_retry raises
\* POSAuthError immediately, exactly one request is made for that call and it
\* is never retried, whichever attempt it occurs on.
C25_AuthErrorAfterOneRequest ==
    \A i \in 1..Len(sent) :
       sent[i].status = 401 =>
          /\ rpc = "raised"
          /\ outcome.exc = "POSAuthError"
          /\ Len(sent) = 1

\* C25, amended: an HTTP 401 response raises POSAuthError immediately,
\* whichever attempt it occurs on: it is the last request of the call, no
\* backoff sleep follows it, and the call has made one request per attempt up
\* to it (exactly one when it answers the first attempt), the earlier ones
\* having failed transiently.
C25_AuthErrorNeverRetried ==
    \A i \in 1..Len(sent) :
       sent[i].status = 401 =>
          /\ rpc = "raised"
          /\ outcome.exc = "POSAuthError"
          /\ i = Len(sent)
          /\ attempt = i - 1
          /\ Len(slept) = i - 1
          /\ TransientBefore(i)

\* A 401 on the second attempt.
C25_Witness ==
    /\ Len(sent) = 2
    /\ sent[2].status = 401
    /\ outcome.exc = "POSAuthError"


\* C26: when every attempt of a _request_with_retry call fails with a
\* transient error, the call makes exactly MAX_RETRIES = 3 requests and then
\* raises POSAPIError whose message names "3 attempts"; no call makes a fourth
\* request.
C26_ThreeAttemptsThenApiError ==
    /\ Len(sent) <= 3
    /\ TransientBefore(Len(sent) + 1) =>
          IF Len(sent) < 3
          THEN rpc \in {"idle", "loop"}
          ELSE /\ rpc = "raised"
               /\ outcome.exc = "POSAPIError"
               /\ outcome.attempts = 3
    /\ outcome.exc = "POSAPIError" => Len(sent) = 3 /\ TransientBefore(4)

\* Three transient failures, among them a transport failure and a 500.
C26_Witness ==
    /\ Len(sent) = 3
    /\ sent[1].status = 500
    /\ sent[2] = TransportFailure
    /\ sent[3].status = 404
    /\ outcome.exc = "POSAPIError"


\* C27: when the first k attempts of a _request_with_retry call fail
\* transiently (k = 1 or 2) and attempt k+1 returns 2xx, the call returns that
\* response without raising and has made exactly k+1 requests: a transient
\* failure of the first or the second attempt is followed by another attempt,
\* and a 2xx answer after one or two transient failures ends the call, which
\* returns it.
C27_SuccessAfterTransientFailures ==
    /\ [](\A k \in 1..2 :
            (Len(sent) = k + 1 /\ TransientBefore(k + 1)
             /\ sent[k + 1].kind = "response" /\ is_success(sent[k + 1].status))
               => /\ rpc = "returned"
                  /\ outcome.kind = "response"
                  /\ outcome.exc = ""
                  /\ outcome.response = sent[k + 1])
    /\ [][(rpc = "loop" /\ Len(sent') = Len(sent) + 1
           /\ Len(sent') < 3 /\ Transient(sent'[Len(sent')]))
             => rpc' = "loop" /\ attempt' = attempt + 1]_vars

\* Two transient failures, then a 200 that the call returned.
C27_Witness ==
    /\ rpc = "returned"
    /\ Len(sent) = 3
    /\ Transient(sent[1]) /\ Transient(sent[2])
    /\ outcome.response.status = 200


\* ---------------------------------------------------------------------------
\* Properties of the rate limiters (LimiterSpec)
\* ---------------------------------------------------------------------------

\* The step is one of task c inside acquire of limiter i, holding its lock:
\* the task held it before the step, or took the free lock in the step.
ActsUnderLock(c, i) ==
    \/ lpc[c] = "sleeping" /\ using[c] = i /\ limiters[i].holder = c
    \/ /\ lpc[c] \in {"idle", "waiting"}
       /\ lpc'[c] # lpc[c] \/ using'[c] # using[c] \/ lpc[c] = "idle"
       /\ i > Len(limiters) \/ limiters[i].holder = "none"
       /\ \A d \in Callers \ {c} : lpc'[d] = lpc[d] /\ using'[d] = using[d]

\* C28: for one rate limiter, under any number of concurrent callers of
\* acquire, two consecutive grants are at least min_interval =
\* 1 / requests_per_second apart, and last_request is read and written only by
\* the task that holds the limiter's lock, one task at a time. A Toast adapter
\* keeps one limiter per location id: the limiter of a location, once created,
\* stays that location's limiter, limiters of different locations and of
\* different adapter instances are different objects, and a step inside one
\* limiter leaves every other limiter as it was.
C28_RateLimiterSpacingAndOwnership ==
    /\ [][\A i \in 1..Len(limiters) :
            limiters'[i] # limiters[i] =>
               /\ \E c \in Callers : ActsUnderLock(c, i)
               /\ \A j \in 1..Len(limiters) : j # i => limiters'[j] = limiters[j]
               /\ (limiters[i].last_request # Null
                   /\ limiters'[i].last_request # limiters[i].last_request)
                     => limiters'[i].last_request - limiters[i].last_request
                           >= min_interval]_vars
    /\ [](\A c \in Callers :
            lpc[c] = "sleeping" => limiters[using[c]].holder = c)
    /\ [](\A r, q \in Requests :
            (r # q /\ rate_limiters[r[1]][r[2]] # 0)
               => rate_limiters[r[1]][r[2]] # rate_limiters[q[1]][q[2]])
    /\ [][\A r \in Requests :
            rate_limiters[r[1]][r[2]] # 0
               => rate_limiters'[r[1]][r[2]] = rate_limiters[r[1]][r[2]]]_vars

\* Three tasks at one limiter, which has granted once: one sleeps under the
\* lock for the rest of the interval, two wait for the lock; meanwhile the same
\* location's limiter of the other adapter has granted as well.
C28_Witness ==
    \E c1, c2, c3 \in Callers :
       /\ c2 # c3
       /\ lpc[c1] = "sleeping" /\ lpc[c2] = "waiting" /\ lpc[c3] = "waiting"
       /\ using[c2] = using[c1] /\ using[c3] = using[c1]
       /\ using[c1] = rate_limiters["adapter-1"]["location-1"]
       /\ rate_limiters["adapter-2"]["location-1"] # 0
       /\ limiters[rate_limiters["adapter-2"]["location-1"]].last_request
             = limiters[using[c1]].last_request


\* ---------------------------------------------------------------------------
\* Order submission of a Clover or Square tenant (Spec)
\* ---------------------------------------------------------------------------

\* The tenant's POS is Clover or Square.
CloverOrSquareTenant ==
    PosConfigured(profile) /\ AdapterOf(profile) \in {"clover", "square"}

\* The last call was for the stored order, which was ready and not yet
\* submitted: the call got as far as the adapter.
LastReachedAdapter ==
    /\ last.oid = ExistingOrder
    /\ ~AlreadySubmitted(last.pre)
    /\ ReadyForSubmission(last.pre)

\* C29: for a tenant whose POS provider is Clover or Square, create_order
\* always fails with POSAPIError, and the orchestrator treats it like any
\* other API failure: every submit_order_to_pos call that gets as far as the
\* adapter raises a retryable OrderSubmissionError and writes nothing, the
\* order never receives an external_id, and task invocations for it come back
\* pending while retry_count is below MAX_RETRIES and leave the order
\* pos_failed from then on.
C29_CloverSquareOrdersEndFailed ==
    /\ [](\A a \in {"clover", "square"} :
            /\ ~create_order(a, posOrders, now).ok
            /\ create_order(a, posOrders, now).error = "POSAPIError")
    /\ []((CloverOrSquareTenant /\ LastWas("submit_order_to_pos")
           /\ LastReachedAdapter)
            => /\ last.nCreate = 1 /\ ~last.created
               /\ last.raised /\ last.err_retryable
               /\ last.exc = "OrderSubmissionError"
               /\ order = last.pre)
    /\ []((CloverOrSquareTenant /\ LastWas("submit_order_to_pos_task")
           /\ LastReachedAdapter)
            => /\ last.nCreate = 1 /\ ~last.created
               /\ last.raised /\ last.err_retryable
               /\ ~last.success
               /\ IF last.rc < MAX_RETRIES
                  THEN last.is_retryable /\ order = last.pre
                  ELSE /\ ~last.is_retryable
                       /\ last.status = "pos_failed"
                       /\ order.status = "pos_failed"
                       /\ order.external_id = NoId)
    /\ [][CloverOrSquareTenant
            => order'.external_id = order.external_id /\ posOrders' = posOrders]_vars

\* A chain of four task invocations for a Square tenant's confirmed order has
\* left it pos_failed, without an external id.
C29_Witness ==
    /\ CloverOrSquareTenant
    /\ profile.pos_provider = "square"
    /\ InRetryChain
    /\ attempts = 4
    /\ last.pre.status = "confirmed"
    /\ order.status = "pos_failed"
    /\ order.external_id = NoId


\* ---------------------------------------------------------------------------
\* Properties of MockPOSAdapter (MockSpec)
\* ---------------------------------------------------------------------------

\* What holds of create_order, set_order_status and get_order_status whatever
\* the message of a failed create_order is: create_order succeeds iff
\* fail_orders is false and none of the order's items is in the unavailable
\* set, a failure is a POSOrderError and tracks no new order, a success tracks
\* the returned id as confirmed; an id a successful create_order returned is
\* tracked, confirmed until set_order_status changes it, and get_order_status
\* returns its tracked status; an id never returned gives POSAPIError 404.
MockOrderContract ==
    /\ mlast.op = "create_order" =>
          /\ mlast.ok <=> (~fail_orders
                           /\ \A k \in 1..Len(mlast.items) :
                                 mlast.items[k] \notin mlast.unavailable_before)
          /\ IF mlast.ok
             THEN /\ mlast.id \in DOMAIN mock_orders
                  /\ mock_orders[mlast.id] = "confirmed"
             ELSE /\ mlast.exc = "POSOrderError"
                  /\ DOMAIN mock_orders = mlast.orders_before
    /\ \A id \in issued :
          /\ id \in DOMAIN mock_orders
          /\ id \notin touched => mock_orders[id] = "confirmed"
    /\ mlast.op = "get_order_status" =>
          IF mlast.id \in issued
          THEN mlast.ok /\ mlast.status = mock_orders[mlast.id]
          ELSE ~mlast.ok /\ mlast.exc = "POSAPIError" /\ mlast.status_code = 404

\* C30 as stated: on one MockPOSAdapter instance, after any sequence of
\* set_item_unavailable / set_item_available / create_order /
\* set_order_status calls, create_order succeeds iff fail_orders is false and
\* none of the order's items is in the unavailable set, and otherwise raises
\* POSOrderError "Item is unavailable" and tracks no new order;
\* get_order_status of an id a successful create_order returned gives
\* confirmed until set_order_status changes it; an id never returned gives a
\* 404 POSAPIError.
C30_FailureIsItemUnavailable ==
    /\ MockOrderContract
    /\ (mlast.op = "create_order" /\ ~mlast.ok)
          => mlast.message = "Item is unavailable"

\* C30, amended: as above, but the POSOrderError of a failed create_order says
\* "Item is unavailable", naming the first unavailable item of the order, only
\* when fail_orders is false; when fail_orders is true it says "Mock order
\* creation failure", whatever the items.
C30_MockOrderLifecycle ==
    /\ MockOrderContract
    /\ (mlast.op = "create_order" /\ ~mlast.ok) =>
          IF fail_orders
          THEN mlast.message = "Mock order creation failure"
          ELSE /\ mlast.message = "Item is unavailable"
               /\ mlast.item \in mlast.unavailable_before
               /\ \E k \in 1..Len(mlast.items) :
                     /\ mlast.items[k] = mlast.item
                     /\ \A m \in 1..(k - 1) :
                           mlast.items[m] \notin mlast.unavailable_before

\* An order was created with an item that was then marked unavailable, its
\* status was changed, and a second order with that item has just been
\* refused.
C30_Witness ==
    /\ ~fail_orders
    /\ mlast.op = "create_order" /\ ~mlast.ok
    /\ mlast.message = "Item is unavailable"
    /\ mlast.item = "item-scrambled"
    /\ \E id \in issued : id \in touched /\ mock_orders[id] = "ready"



\* ---------------------------------------------------------------------------
\* Properties of webhook signature verification (SignatureSpec)
\* ---------------------------------------------------------------------------

\* Two byte strings of one length that differ in at least one byte.
DiffersInAByte(a, b) == Len(a) = Len(b) /\ \E i \in 1..Len(a) : a[i] # b[i]

\* The sender signed exactly the verified body under the verifier's secret.
SignedAsVerified == signedBy.key = sigSecret /\ signedBy.payload = sigPayload

\* The sender signed another body, or signed under a key that differs in a byte.
SignedOtherwise ==
    \/ signedBy.payload # sigPayload
    \/ DiffersInAByte(signedBy.key, sigSecret)

C32_SquareAcceptsWithoutUrl ==
    (verified # "not called" /\ sigAdapter = "square")
    => /\ sigUrl = NoUrl => verified = "True"
       /\ (sigUrl # NoUrl /\ verified = "True")
            => /\ signedBy.rendering = "base64"
               /\ signedBy.url \o signedBy.payload = sigUrl \o sigPayload
               /\ sigSignature = b64encode(HmacSha256(sigSecret, sigUrl \o sigPayload))
       /\ (sigUrl # NoUrl /\ signedBy.rendering = "base64" /\ SignedAsVerified
             /\ signedBy.url = sigUrl) => verified = "True"

\* A Square verification without a URL that accepted a signature nobody
\* computed from the body.
C32_Witness ==
    /\ sigAdapter = "square"
    /\ sigUrl = NoUrl
    /\ signedBy.rendering = "garbage"
    /\ verified = "True"



\* The number of failed attempts a call has behind it when its step i begins.
RECURSIVE RequestsBefore(_)
RequestsBefore(i) ==
    IF i <= 1 THEN 0
    ELSE RequestsBefore(i - 1) + (IF steps[i - 1].op = "request" THEN 1 ELSE 0)

\* C33: within one _request_with_retry call every request, the first and
\* every retry, comes directly after an acquire of the rate limiter, and
\* every acquire is followed by its request; the sleep after the failed
\* attempt with index a lasts RETRY_BACKOFF_BASE^a seconds (1 s after the
\* first failure, 2 s after the second) and precedes the next acquire; a call
\* that has made all its attempts ends with a request, not with a sleep.
C33_AcquireBeforeRequestAndBackoff ==
    /\ \A i \in 1..Len(steps) :
         /\ steps[i].op = "request" => (i > 1 /\ steps[i - 1].op = "acquire")
         /\ steps[i].op = "acquire" => (i < Len(steps) /\ steps[i + 1].op = "request")
         /\ steps[i].op = "sleep"
              => /\ steps[i - 1].op = "request"
                 /\ steps[i].seconds = Pow(RETRY_BACKOFF_BASE, RequestsBefore(i) - 1)
                 /\ (rpc = "loop" \/ i < Len(steps))
         /\ (steps[i].op = "request" /\ i < Len(steps)) => steps[i + 1].op = "sleep"
    /\ Len(sent) >= 2 => (steps[3].op = "sleep" /\ steps[3].seconds = 1)
    /\ Len(sent) >= 3 => (steps[6].op = "sleep" /\ steps[6].seconds = 2)
    /\ Len(sent) = HTTP_MAX_RETRIES
         => /\ steps[Len(steps)].op = "request"
            /\ Len(slept) = HTTP_MAX_RETRIES - 1
    /\ (rpc = "raised" /\ outcome.exc = "POSAPIError") => Len(sent) = HTTP_MAX_RETRIES

\* A Clover call whose three attempts all failed: acquire, request, 1 s,
\* acquire, request, 2 s, acquire, request, and POSAPIError without a sleep.
C33_Witness ==
    /\ httpAdapter = "clover"
    /\ rpc = "raised"
    /\ outcome.exc = "POSAPIError"
    /\ [i \in 1..Len(steps) |-> steps[i].op]
         = <<"acquire", "request", "sleep", "acquire", "request", "sleep",
             "acquire", "request">>
    /\ slept = <<1, 2>>



\* ---------------------------------------------------------------------------
\* Properties of webhook processing (WebhookSpec): verification and effects
\* ---------------------------------------------------------------------------

\* The verification of process_webhook is skipped for the record: no secret is
\* configured for its provider, or it carries no signature.
Unverified(r) == r.provider \notin secrets \/ r.signature = ""

\* C34: process_webhook verifies a signature only when a secret is configured
\* for the provider and the record's signature is not empty.  In every other
\* case, with a secret configured and no signature as well as with a forged
\* signature and no secret, the pending record never fails for its signature:
\* it is parsed, and when the payload parses it is handed to its handler and
\* stored as processed.
C34_UnsignedRecordIsProcessed ==
    [][\A p \in Workers :
         (/\ pc[p] = "locked"
          /\ pc'[p] # "locked"
          /\ row[p].status = "pending"
          /\ Unverified(row[p]))
         => /\ webhooks'[cur[p]].error # "Invalid webhook signature"
            /\ parses'[cur[p]] = parses[cur[p]] + 1
            /\ parse_webhook("mock", row[p].payload).ok
                 => /\ webhooks'[cur[p]].status = "processed"
                    /\ applied'[cur[p]] = applied[cur[p]] + 1
                    /\ raising'[p] = ""]_vars

\* A record without a signature whose provider has a secret configured was
\* parsed, handled and stored as processed.
C34_Witness ==
    \E w \in WebhookIds :
      /\ webhooks[w].provider \in secrets
      /\ webhooks[w].signature = ""
      /\ webhooks[w].status = "processed"
      /\ parses[w] = 1
      /\ applied[w] = 1

\* C38: a process_webhook call that stores its record as failed has changed
\* no MenuItem, Modifier or Order row and has run no handler; and every step
\* that changes one of these rows is the commit of a call that stores its
\* pending record as processed.
C38_FailedRecordHasNoEffects ==
    /\ [][\A p \in Workers :
            (/\ pc[p] = "locked"
             /\ pc'[p] # "locked"
             /\ row[p].status = "pending"
             /\ webhooks'[cur[p]].status = "failed")
            => /\ handlerRows' = handlerRows
               /\ applied' = applied]_vars
    /\ [][handlerRows' # handlerRows
            => \E p \in Workers :
                 /\ pc[p] = "locked"
                 /\ webhooks[cur[p]].status = "pending"
                 /\ webhooks'[cur[p]].status = "processed"
                 /\ applied'[cur[p]] = applied[cur[p]] + 1]_vars

\* One record failed, unhandled, although its payload names a row that
\* exists, while the other record was processed and changed a row.
C38_Witness ==
    \E w, v \in WebhookIds :
      /\ w # v
      /\ webhooks[w].status = "failed"
      /\ webhooks[w].payload.id = "mod-1"
      /\ applied[w] = 0
      /\ webhooks[v].status = "processed"
      /\ applied[v] = 1
      /\ webhooks[v].payload.id \in {"item-1", "ext-1"}



\* ---------------------------------------------------------------------------
\* Properties of order submission (Spec): rejected and refunded orders
\* ---------------------------------------------------------------------------

\* C35: a submit_order_to_pos_task call on an order without external id whose
\* status is neither pending nor confirmed (completed, cancelled, ...) is
\* rejected and leaves the order's status as it was before the call.
C35_RejectedSubmissionKeepsStatus ==
    (/\ LastWas("submit_order_to_pos_task")
     /\ last.pre.external_id = NoId
     /\ last.pre.status \notin {"pending", "confirmed"})
    => order.status = last.pre.status

\* C36: over any sequence of submit_order_to_pos_task,
\* handle_pos_submission_failure, compensate_failed_order and
\* retry_failed_order calls, no call hands an order to an adapter's
\* create_order whose payment was refunded by a compensation before.
C36_RefundedOrderNeverSubmitted ==
    (last.nCreate > 0 /\ refunds # <<>>) => last.pre.payment_status # "refunded"



\* ---------------------------------------------------------------------------
\* Properties of overlapping compensations (CompensationSpec)
\* ---------------------------------------------------------------------------

\* C37: over any interleaving of compensate_failed_order and
\* handle_pos_submission_failure(auto_refund=True) calls on one order,
\* create_refund returns a refund at most once, and no two calls are past the
\* test of the payment status at the same time.
C37_AtMostOneRefund ==
    /\ nRefunded <= 1
    /\ \A c, d \in Compensators :
         (c # d /\ cpc[c] \in {"refund", "save", "commit_refunded"})
         => cpc[d] \notin {"refund", "save", "commit_refunded"}



\* ---------------------------------------------------------------------------
\* Properties of the confirmation paths (ConfirmSpec)
\* ---------------------------------------------------------------------------

\* C39: every order that has moved from pending to confirmed with its payment
\* captured, by the confirm_order endpoint or by the handler of
\* payment_intent.succeeded, eventually has submit_order_to_pos_task invoked
\* for it.
C39_ConfirmedOrderIsSubmitted ==
    (order.status = "confirmed" /\ order.payment_status = "captured")
      ~> (invoked > 0)

====
